---------------------------- MODULE Spec2Model ----------------------------
(***************************************************************************)
(* A model of the pipeline scheduler of savant_core (pipeline2.rs).        *)
(*                                                                         *)
(* The pipeline is an ordered list of stages, an atomic ID counter, an     *)
(* atomic frame counter, the payload-location map (frame_locations), the   *)
(* root-span map (root_spans) and two once-settable cells.  The key-value  *)
(* store of the web server (webserver.rs, webserver/kvs.rs) is the cache   *)
(* kvs read against the clock now; the lifecycle controller of the web     *)
(* server is the status, the shutdown token and latch, the server job and  *)
(* the shutdown requests it serves.  Every public pipeline                 *)
(* method is modelled as a sequence of steps, one step per access to a     *)
(* lock-protected structure or atomic, so that the same step operators     *)
(* give the sequential behaviour (a method runs to its return) and the     *)
(* interleavings of several threads.                                       *)
(***************************************************************************)
EXTENDS Integers, Sequences, FiniteSets, TLC

VARIABLES id_counter, frame_counter, root_spans, root_spans_lock, stages,
          frame_locations, sampling_period, root_span_name, open_spans,
          th, issued, admitted, deleted, live, calls,
          kvs, now, kvs_th,
          status, shutdown_token, shutdown_status, ws_job, pid,
          shutdown_signal_no, tasks, requests, signals, jobs, init_th

vars == <<id_counter, frame_counter, root_spans, root_spans_lock, stages,
          frame_locations, sampling_period, root_span_name, open_spans,
          th, issued, admitted, deleted, live, calls,
          kvs, now, kvs_th,
          status, shutdown_token, shutdown_status, ws_job, pid,
          shutdown_signal_no, tasks, requests, signals, jobs, init_th>>

\* The key-value store: the cache kvs, the clock now (milliseconds) and,
\* for every caller, the set_attributes or del_attributes call it is in
\* (kvs_th).

\* The lifecycle controller of the web server (webserver.rs): the fields of
\* WS_DATA other than kvs, the statics WS_JOB, PID and SHUTDOWN_SIGNAL_NO,
\* the tasks spawned on the runtime that have not run yet, the shutdown
\* requests the HTTP server has received, the signals sent by kill, the
\* server jobs spawned so far (WS_JOB holds the index of one of them), and
\* the init_webserver calls the threads are in.
ws_vars == <<status, shutdown_token, shutdown_status, ws_job, pid,
             shutdown_signal_no, tasks, requests, signals, jobs, init_th>>

(***************************************************************************)
(* Bounds of the model.                                                    *)
(***************************************************************************)
\* IDs are allocated while id_counter < MaxId.
MaxId == 3
\* Longest ID list passed to a movement operation.
MaxIdsLen == 2
\* Number of caller threads in the concurrent specification.
NumThreads == 2
\* Number of method calls made in the concurrent specification.
MaxCalls == 3

Threads == 1..NumThreads

\* The opaque frame values callers hand to add_frame: the callers submit a
\* stream of pairwise different frames, numbered by the frame counter.
FrameValues == {<<"frame", k>> : k \in 1..MaxId}

NoFrame == <<"frame", 0>>

\* IDs a caller may pass: every ID that can be allocated, and one that never is.
IdArgs == 1..(MaxId + 1)

RECURSIVE SeqsUpTo(_, _)
SeqsUpTo(S, n) ==
    IF n = 0 THEN {<<>>}
    ELSE LET shorter == SeqsUpTo(S, n - 1)
         IN shorter \cup {Append(q, x) : q \in {r \in shorter : Len(r) = n - 1}, x \in S}

IdLists == SeqsUpTo(IdArgs, MaxIdsLen)

Range(q) == {q[i] : i \in 1..Len(q)}

(***************************************************************************)
(* Finite maps (HashMap) as functions with a finite domain.                *)
(***************************************************************************)
EmptyMap == [x \in {} |-> 0]

MapInsert(m, k, v) == [x \in (DOMAIN m) \cup {k} |-> IF x = k THEN v ELSE m[x]]

MapRemove(m, k) == [x \in (DOMAIN m) \ {k} |-> m[x]]

MapRemoveAll(m, ks) == [x \in (DOMAIN m) \ ks |-> m[x]]

\* HashMap::extend: every (k, v) of `other` is inserted, overwriting.
MapExtend(m, other) ==
    [x \in (DOMAIN m) \cup (DOMAIN other) |-> IF x \in DOMAIN other THEN other[x] ELSE m[x]]

MapRestrict(m, ks) == [x \in (DOMAIN m) \cap ks |-> m[x]]

Min(S) == CHOOSE x \in S : \A y \in S : x <= y

(***************************************************************************)
(* The stages of the pipeline, the argument of Pipeline::new: the four     *)
(* stages of create_pipeline() followed by one more Batch stage, so that   *)
(* the frames unpacked into "output" can be packed again.                  *)
(* Stage indices are those of the Vec, starting at 0.                      *)
(***************************************************************************)
StageDefs ==
    <<[stage_name |-> "input",  stage_type |-> "Frame"],
      [stage_name |-> "proc1",  stage_type |-> "Batch"],
      [stage_name |-> "proc2",  stage_type |-> "Batch"],
      [stage_name |-> "output", stage_type |-> "Frame"],
      [stage_name |-> "repack", stage_type |-> "Batch"]>>

StageIdx == 0..(Len(StageDefs) - 1)

stage_name_of(i) == StageDefs[i + 1].stage_name

stage_type_of(i) == StageDefs[i + 1].stage_type

\* Stage names a caller may pass: every stage, and a name no stage has.
NameArgs == {stage_name_of(i) : i \in StageIdx} \cup {"nope"}

None == -1

(***************************************************************************)
(* Tracing.  A Context is either the default (invalid trace id) or holds a *)
(* span; a span is identified by the ID it was opened for and its name.    *)
(* open_spans is the tracer's set of stage spans opened and not yet ended. *)
(***************************************************************************)
InvalidCtx == [valid |-> FALSE, id |-> 0, name |-> ""]

SpanCtx(id, name) == [valid |-> TRUE, id |-> id, name |-> name]

DEFAULT_ROOT_SPAN_NAME == "video_pipeline"

(***************************************************************************)
(* Payloads (PipelinePayload).                                             *)
(***************************************************************************)
FramePayload(frame, updates, ctx) ==
    [kind |-> "Frame", frame |-> frame, updates |-> updates, ctx |-> ctx]

\* batch: member ID -> frame; updates: sequence of <<member ID, update>>;
\* contexts: member ID -> Context.
BatchPayload(batch, updates, contexts) ==
    [kind |-> "Batch", batch |-> batch, updates |-> updates, contexts |-> contexts]

\* The stage spans a payload holds.
PayloadSpans(p) ==
    IF p.kind = "Frame"
    THEN (IF p.ctx.valid THEN {p.ctx} ELSE {})
    ELSE {p.contexts[m] : m \in {x \in DOMAIN p.contexts : p.contexts[x].valid}}

Ok(v) == [ok |-> TRUE, val |-> v, err |-> ""]

Err(e) == [ok |-> FALSE, val |-> None, err |-> e]

NoRet == [ok |-> FALSE, val |-> None, err |-> "no call"]

(***************************************************************************)
(* PipelineStage (pipeline2/stage.rs).  `payload` is the stage's map from  *)
(* payload ID to payload; `i` is the index of the stage.  Every operation  *)
(* runs under the stage's own lock and is one atomic step.  A result is    *)
(* [ok, payload] with the stage's map afterwards.                          *)
(***************************************************************************)
stage_add_frame_payload(i, payload, id, p) ==
    IF stage_type_of(i) /= "Frame" THEN [ok |-> FALSE, payload |-> payload]
    ELSE IF id \in DOMAIN payload THEN [ok |-> FALSE, payload |-> payload]
    ELSE [ok |-> TRUE, payload |-> MapInsert(payload, id, p)]

stage_add_batch_payload(i, payload, id, p) ==
    IF stage_type_of(i) /= "Batch" THEN [ok |-> FALSE, payload |-> payload]
    ELSE IF id \in DOMAIN payload THEN [ok |-> FALSE, payload |-> payload]
    ELSE [ok |-> TRUE, payload |-> MapInsert(payload, id, p)]

\* `ps` is a map ID -> payload.
stage_add_payloads(i, payload, ps) ==
    IF \E k \in DOMAIN ps : ps[k].kind /= stage_type_of(i)
    THEN [ok |-> FALSE, payload |-> payload]
    ELSE [ok |-> TRUE, payload |-> MapExtend(payload, ps)]

\* delete: [removed, payload]; removed is <<p>> or <<>> (Option).
stage_delete(payload, id) ==
    IF id \in DOMAIN payload
    THEN [removed |-> <<payload[id]>>, payload |-> MapRemove(payload, id)]
    ELSE [removed |-> <<>>, payload |-> payload]

\* delete_many: [removed (map ID -> payload), payload]; missing IDs are skipped.
stage_delete_many(payload, ids) ==
    [removed |-> MapRestrict(payload, Range(ids)),
     payload |-> MapRemoveAll(payload, Range(ids))]

stage_len(payload) == Cardinality(DOMAIN payload)

stage_get_independent_frame(payload, id) ==
    IF id \notin DOMAIN payload THEN Err("Frame not found in stage")
    ELSE IF payload[id].kind /= "Frame" THEN Err("Payload must be a frame")
    ELSE Ok(<<payload[id].frame, payload[id].ctx>>)

stage_get_batched_frame(payload, batch_id, frame_id) ==
    IF batch_id \notin DOMAIN payload THEN Err("Batch not found in stage")
    ELSE IF payload[batch_id].kind /= "Batch" THEN Err("Payload must be a batch")
    ELSE IF frame_id \notin DOMAIN payload[batch_id].batch THEN Err("Frame not found in batch")
    ELSE Ok(<<payload[batch_id].batch[frame_id], payload[batch_id].contexts[frame_id]>>)

stage_get_batch(payload, batch_id) ==
    IF batch_id \notin DOMAIN payload THEN Err("Batch not found in stage")
    ELSE IF payload[batch_id].kind /= "Batch" THEN Err("Payload must be a batch")
    ELSE Ok(<<payload[batch_id].batch, payload[batch_id].contexts>>)

(***************************************************************************)
(* The state of the pipeline and of its callers as one record, so that a   *)
(* step is a function from state to state.                                 *)
(***************************************************************************)
State ==
    [id_counter |-> id_counter, frame_counter |-> frame_counter,
     root_spans |-> root_spans, root_spans_lock |-> root_spans_lock,
     stages |-> stages, frame_locations |-> frame_locations,
     sampling_period |-> sampling_period, root_span_name |-> root_span_name,
     open_spans |-> open_spans, th |-> th, issued |-> issued,
     admitted |-> admitted, deleted |-> deleted, live |-> live, calls |-> calls]

Install(n) ==
    /\ id_counter' = n.id_counter
    /\ frame_counter' = n.frame_counter
    /\ root_spans' = n.root_spans
    /\ root_spans_lock' = n.root_spans_lock
    /\ stages' = n.stages
    /\ frame_locations' = n.frame_locations
    /\ sampling_period' = n.sampling_period
    /\ root_span_name' = n.root_span_name
    /\ open_spans' = n.open_spans
    /\ th' = n.th
    /\ issued' = n.issued
    /\ admitted' = n.admitted
    /\ deleted' = n.deleted
    /\ live' = n.live
    /\ calls' = n.calls
    /\ UNCHANGED <<kvs, now, kvs_th, ws_vars>>

(***************************************************************************)
(* A caller thread: the method it is in (op) with its arguments, the place *)
(* it has reached (pc), the method's local variables, and the result of    *)
(* the last call that returned (ret).  issued is the history of the IDs    *)
(* taken from the ID counter, in the order of the fetch_add; admitted is   *)
(* the set of the frame IDs an ingress has returned; deleted is            *)
(* the history of the frame IDs whose delete returned Ok; live is the set  *)
(* of the IDs an ingress or a pack has returned and no delete or unpack    *)
(* has returned since.                                                     *)
(***************************************************************************)
IdleTh ==
    [pc |-> "idle", op |-> "none",
     \* arguments
     stage_name |-> "", ids |-> <<>>, id |-> 0, frame |-> NoFrame, parent_valid |-> FALSE,
     \* locals
     source_index |-> None, dest_index |-> None, new_id |-> 0,
     removed |-> EmptyMap, batch |-> EmptyMap, batch_updates |-> <<>>,
     contexts |-> EmptyMap, ctx |-> InvalidCtx, i |-> 0,
     \* the order in which the span rotation visits the members, and its index
     order |-> <<>>, j |-> 0,
     \* history: the value the frame counter took at this call's fetch_add
     count |-> 0,
     ret |-> NoRet]

\* Return from the method: the locals and the arguments are dropped, the
\* result is kept until the caller has taken it.
Return(s, t, r) == [s EXCEPT !.th[t] = [IdleTh EXCEPT !.ret = r]]

\* The caller has taken the results.
Forget(s) ==
    [s EXCEPT !.th = [t \in Threads |->
                         IF s.th[t].pc = "idle" THEN IdleTh ELSE s.th[t]]]

Goto(s, t, pc) == [s EXCEPT !.th[t].pc = pc]

\* The thread waits for a lock that is never released.
BlockedPcs == {"delete_blocked"}

\* The thread panicked (an unwrap of None).
PanickedPcs == {"panicked"}

(***************************************************************************)
(* Pipeline: private helpers.                                              *)
(***************************************************************************)
find_stage(stage_name, start_from) ==
    LET found == {i \in StageIdx : i >= start_from /\ stage_name_of(i) = stage_name}
    IN IF found = {} THEN None ELSE Min(found)

find_stage_type(stage_name, start_from) ==
    LET i == find_stage(stage_name, start_from)
    IN IF i = None THEN "None" ELSE stage_type_of(i)

\* get_or_init of the two OnceLock cells; a cell is <<>> (empty) or <<v>>.
get_sampling_period(s) == IF s.sampling_period = <<>> THEN 0 ELSE s.sampling_period[1]

get_root_span_name(s) ==
    IF s.root_span_name = <<>> THEN DEFAULT_ROOT_SPAN_NAME ELSE s.root_span_name[1]

\* get_stage_span: the Context of a new span `span_name` under the root span
\* of `id`, or the default Context when the root is the invalid one.
get_stage_span(s, id, span_name) ==
    IF s.root_spans[id].valid THEN SpanCtx(id, span_name) ELSE InvalidCtx

\* The end() calls left out: the spans stay open.
EndSpans_skipped(open, ctxs) == open

\* ctx.span().end()
EndSpans(open, ctxs) == open \ ctxs

OpenSpans(open, ctxs) == open \cup {c \in ctxs : c.valid}

get_stage_for_id(s, id) ==
    IF id \in DOMAIN s.frame_locations THEN s.frame_locations[id] ELSE None

\* Sequence of the stage of every ID, or <<>> when one ID has no location.
get_stages_for_ids(s, ids) ==
    IF \E k \in 1..Len(ids) : ids[k] \notin DOMAIN s.frame_locations
    THEN [ok |-> FALSE, val |-> <<>>]
    ELSE [ok |-> TRUE, val |-> [k \in 1..Len(ids) |-> s.frame_locations[ids[k]]]]

update_frame_locations(locations, ids, index) ==
    MapExtend(locations, [x \in ids |-> index])

check_ids_in_the_same_stage(s, ids) ==
    IF Len(ids) = 0 THEN Err("Object IDs cannot be empty")
    ELSE LET r == get_stages_for_ids(s, ids)
         IN IF ~r.ok THEN Err("Object location not found")
            ELSE IF \E k \in 1..Len(ids) : r.val[k] /= r.val[1]
                 THEN Err("All objects must be in the same stage")
                 ELSE Ok(r.val[1])

(***************************************************************************)
(* Pipeline::add_frame and Pipeline::add_frame_with_telemetry.             *)
(***************************************************************************)
\* add_frame, line 264: get_sampling_period() initialises the cell when empty.
add_frame_period(s, t) ==
    Goto([s EXCEPT !.sampling_period = <<get_sampling_period(s)>>], t, "add_frame_load")

\* Whether add_frame asks for a sampled (valid) root context, lines 265-266.
add_frame_sampled(period, counter) ==
    LET next_frame == counter + 1
    IN ~(period <= 0 \/ next_frame % period /= 0)

\* add_frame, lines 265-266: load of the frame counter, choice of the context.
add_frame_load(s, t) ==
    LET sampled == add_frame_sampled(get_sampling_period(s), s.frame_counter)
    IN Goto([s EXCEPT !.th[t].parent_valid = sampled], t,
            IF sampled THEN "add_frame_ctx" ELSE "awt_check")

\* add_frame, line 269, for a frame that is sampled: get_root_span_name()
\* initialises the cell when it is empty, and the root context is made.
add_frame_ctx(s, t) ==
    Goto([s EXCEPT !.root_span_name = <<get_root_span_name(s)>>], t, "awt_check")

\* add_frame_with_telemetry, lines 292-299: the stage-kind check, then the
\* increment of the frame counter.
awt_check(s, t) ==
    IF find_stage_type(s.th[t].stage_name, 0) = "Batch"
    THEN Return(s, t, Err("Stage does not accept batched frames"))
    ELSE Goto([s EXCEPT !.frame_counter = s.frame_counter + 1,
                        !.th[t].count = s.frame_counter + 1], t, "awt_id")

\* line 300: id_counter.fetch_add(1) + 1.
awt_id(s, t) ==
    LET id == s.id_counter + 1
    IN Goto([s EXCEPT !.id_counter = s.id_counter + 1,
                      !.issued = Append(s.issued, id),
                      !.th[t].new_id = id],
            t, IF s.th[t].parent_valid THEN "awt_name" ELSE "awt_root")

\* lines 307-310, valid parent: get_root_span_name() initialises the cell
\* when it is empty, and the root span is built; no lock is held.
awt_name(s, t) ==
    Goto([s EXCEPT !.root_span_name = <<get_root_span_name(s)>>], t, "awt_root")

\* lines 303-305, 312-314: root_spans.write() is taken and the root context
\* of the new ID inserted, the default one for an invalid parent.
awt_root(s, t) ==
    LET id == s.th[t].new_id IN
    IF s.th[t].parent_valid
    THEN Goto([s EXCEPT !.root_spans = MapInsert(s.root_spans, id,
                                                 SpanCtx(id, <<"root", get_root_span_name(s)>>))],
              t, "awt_span")
    ELSE Goto([s EXCEPT !.root_spans = MapInsert(s.root_spans, id, InvalidCtx)],
              t, "awt_span")

\* lines 317-318: the stage span "add/{stage_name}".
awt_span(s, t) ==
    LET ctx == get_stage_span(s, s.th[t].new_id, <<"add", s.th[t].stage_name>>)
    IN Goto([s EXCEPT !.open_spans = OpenSpans(s.open_spans, {ctx}),
                      !.th[t].ctx = ctx], t, "awt_insert")

\* lines 320-325: insert into the stage; the payload is dropped on an error.
awt_insert(s, t) ==
    LET index == find_stage(s.th[t].stage_name, 0)
        id == s.th[t].new_id
        dropped == [s EXCEPT !.open_spans = EndSpans(s.open_spans, {s.th[t].ctx})]
    IN IF index = None THEN Return(dropped, t, Err("Stage not found"))
       ELSE LET r == stage_add_frame_payload(index, s.stages[index], id,
                                             FramePayload(s.th[t].frame, <<>>, s.th[t].ctx))
            IN IF ~r.ok THEN Return(dropped, t, Err("Stage rejected the payload"))
               ELSE Goto([s EXCEPT !.stages[index] = r.payload,
                                   !.th[t].dest_index = index], t, "awt_loc")

\* The ingress without line 322: the location of the new frame is not recorded.
awt_loc_skipped(s, t) ==
    Return([s EXCEPT !.admitted = s.admitted \cup {s.th[t].new_id},
                     !.live = s.live \cup {s.th[t].new_id}], t, Ok(s.th[t].new_id))

\* lines 322, 327: record the location, return the ID.
awt_loc(s, t) ==
    LET id == s.th[t].new_id
    IN Return([s EXCEPT !.frame_locations =
                            MapInsert(s.frame_locations, id, s.th[t].dest_index),
                        !.admitted = s.admitted \cup {id},
                        !.live = s.live \cup {id}],
              t, Ok(id))

(***************************************************************************)
(* Pipeline::delete.                                                       *)
(***************************************************************************)
\* Mutant: the location is read, not removed.
delete_location_kept(s, t) ==
    LET id == s.th[t].id IN
    IF id \notin DOMAIN s.frame_locations
    THEN Return(s, t, Err("Object location not found"))
    ELSE Goto([s EXCEPT !.th[t].source_index = s.frame_locations[id]], t, "delete_stage")

\* lines 331-335: the location is removed first.
delete_location(s, t) ==
    LET id == s.th[t].id IN
    IF id \notin DOMAIN s.frame_locations
    THEN Return(s, t, Err("Object location not found"))
    ELSE Goto([s EXCEPT !.frame_locations = MapRemove(s.frame_locations, id),
                        !.th[t].source_index = s.frame_locations[id]], t, "delete_stage")

\* lines 337-341: remove the payload from the stage.
delete_stage(s, t) ==
    LET id == s.th[t].id
        index == s.th[t].source_index
        r == stage_delete(s.stages[index], id)
    IN IF r.removed = <<>> THEN Return(s, t, Err("Object not found in stage"))
       ELSE Goto([s EXCEPT !.stages[index] = r.payload,
                           !.th[t].removed = MapInsert(EmptyMap, id, r.removed[1])],
                 t, "delete_root")

\* lines 343-361: root_spans.write() is taken (bind).  For a frame the stage
\* span is ended and the root span removed and returned.  For a batch the arm
\* takes root_spans.write() again while bind is held: the lock is not
\* reentrant, so the thread waits for itself.
delete_root(s, t) ==
    LET id == s.th[t].id
        p == s.th[t].removed[id]
    IN IF p.kind = "Frame"
       THEN IF id \notin DOMAIN s.root_spans THEN Goto(s, t, "panicked")
            ELSE Return([s EXCEPT !.open_spans = EndSpans(s.open_spans, {p.ctx}),
                                  !.root_spans = MapRemove(s.root_spans, id),
                                  !.deleted = s.deleted \cup {id},
                                  !.live = s.live \ {id}],
                        t, Ok(MapInsert(EmptyMap, id, s.root_spans[id])))
       ELSE Goto([s EXCEPT !.root_spans_lock = t], t, "delete_blocked")

(***************************************************************************)
(* Span rotation of the movement operations: member by member, the stage   *)
(* span is ended (ctx.span().end(), no lock) and then a span               *)
(* "stage/{dest}" is opened under the member's root span (get_stage_span,  *)
(* which takes root_spans.read()).  A work item <<k, m>> is the member m   *)
(* of the payload k; a frame is its own only member.  The members are      *)
(* visited in the iteration order of a HashMap, which is any order; the    *)
(* thread's `order` holds the one the iteration takes.                     *)
(***************************************************************************)
\* The IDs whose root span get_stage_span unwraps for the payload `p` of `id`.
RootsNeeded(id, p) == IF p.kind = "Frame" THEN {id} ELSE DOMAIN p.contexts

\* All spans of a map ID -> payload.
SpansOf(ps) == UNION {PayloadSpans(ps[k]) : k \in DOMAIN ps}

\* The enumerations of a finite set.
RECURSIVE Perms(_)
Perms(S) ==
    IF S = {} THEN {<<>>}
    ELSE UNION {{<<x>> \o q : q \in Perms(S \ {x})} : x \in S}

\* The orders an iteration over the work items may take: payload after
\* payload, and inside a payload member after member.
IterationOrders(items) ==
    {q \in Perms(items) :
        \A a, b, c \in 1..Len(q) :
            (a < b /\ b < c /\ q[a][1] = q[c][1]) => q[b][1] = q[a][1]}

MoveItems(removed) ==
    UNION {{<<k, m>> : m \in RootsNeeded(k, removed[k])} : k \in DOMAIN removed}

MemberItems(members) == {<<m, m>> : m \in members}

\* The context the payloads hold for a work item.
ItemCtx(removed, item) ==
    IF removed[item[1]].kind = "Frame" THEN removed[item[1]].ctx
    ELSE removed[item[1]].contexts[item[2]]

\* The payloads with the context of a work item replaced.
WithItemCtx(removed, item, ctx) ==
    IF removed[item[1]].kind = "Frame"
    THEN [removed EXCEPT ![item[1]].ctx = ctx]
    ELSE [removed EXCEPT ![item[1]].contexts[item[2]] = ctx]

(***************************************************************************)
(* Pipeline::move_as_is.                                                   *)
(***************************************************************************)
\* lines 473-489: source stage of the IDs, destination lookup from the source
\* index on, equal stage types.
move_as_is_check(s, t) ==
    LET c == check_ids_in_the_same_stage(s, s.th[t].ids) IN
    IF ~c.ok THEN Return(s, t, c)
    ELSE LET source_index == c.val
             dest_index == find_stage(s.th[t].stage_name, source_index)
         IN IF source_index \notin StageIdx THEN Return(s, t, Err("Source stage not found"))
            ELSE IF dest_index = None THEN Return(s, t, Err("Destination stage not found"))
            ELSE IF stage_type_of(source_index) /= stage_type_of(dest_index)
                 THEN Return(s, t, Err("The source stage type must be the same as the destination stage type"))
                 ELSE Goto([s EXCEPT !.th[t].source_index = source_index,
                                     !.th[t].dest_index = dest_index],
                           t, "move_as_is_remove")

\* The removal of lines 491-493 replaced by a copy: the payloads stay in the
\* source stage.
move_as_is_remove_copied(s, t) ==
    LET r == stage_delete_many(s.stages[s.th[t].source_index], s.th[t].ids)
    IN Goto([s EXCEPT !.th[t].removed = r.removed], t, "move_as_is_loc")

\* lines 491-493: delete_many on the source stage.
move_as_is_remove(s, t) ==
    LET r == stage_delete_many(s.stages[s.th[t].source_index], s.th[t].ids)
    IN Goto([s EXCEPT !.stages[s.th[t].source_index] = r.payload,
                      !.th[t].removed = r.removed], t, "move_as_is_loc")

\* line 495: the locations of all listed IDs are rewritten.
move_as_is_loc(s, t) ==
    Goto([s EXCEPT !.frame_locations =
                       update_frame_locations(s.frame_locations, Range(s.th[t].ids),
                                              s.th[t].dest_index),
                   !.th[t].j = 1],
         t, IF MoveItems(s.th[t].removed) = {} THEN "move_as_is_insert"
            ELSE "move_as_is_end")

\* lines 501, 507: ctx.span().end() of the member the iteration is at.
move_as_is_end(s, t) ==
    LET l == s.th[t]
    IN Goto([s EXCEPT !.open_spans = EndSpans(s.open_spans,
                                              {ItemCtx(l.removed, l.order[l.j])})],
            t, "move_as_is_span")

\* lines 502, 508-510: get_stage_span of the member; the next member, or
\* the insert after the last.
move_as_is_span(s, t) ==
    LET l == s.th[t]
        item == l.order[l.j]
        ctx == get_stage_span(s, item[2], <<"stage", l.stage_name>>)
    IN IF item[2] \notin DOMAIN s.root_spans THEN Goto(s, t, "panicked")
       ELSE Goto([s EXCEPT !.open_spans = OpenSpans(s.open_spans, {ctx}),
                           !.th[t].removed = WithItemCtx(l.removed, item, ctx),
                           !.th[t].j = l.j + 1],
                 t, IF l.j = Len(l.order) THEN "move_as_is_insert" ELSE "move_as_is_end")

\* lines 519-521: add_payloads on the destination stage.
move_as_is_insert(s, t) ==
    LET index == s.th[t].dest_index
        r == stage_add_payloads(index, s.stages[index], s.th[t].removed)
    IN IF ~r.ok
       THEN Return([s EXCEPT !.open_spans = EndSpans(s.open_spans, SpansOf(s.th[t].removed))],
                   t, Err("Stage rejected the payloads"))
       ELSE Return([s EXCEPT !.stages[index] = r.payload], t, Ok(0))

(***************************************************************************)
(* Pipeline::move_and_pack_frames.                                         *)
(***************************************************************************)
\* Mutant: the batch ID is allocated before the stage kinds are checked.
pack_check_alloc_first(s, t) ==
    LET c == check_ids_in_the_same_stage(s, s.th[t].ids) IN
    IF ~c.ok THEN Return(s, t, c)
    ELSE LET source_index == c.val
             dest_index == find_stage(s.th[t].stage_name, source_index)
         IN IF source_index \notin StageIdx THEN Return(s, t, Err("Source stage not found"))
            ELSE IF dest_index = None THEN Return(s, t, Err("Destination stage not found"))
            ELSE IF stage_type_of(source_index) = "Batch" \/ stage_type_of(dest_index) = "Frame"
                 THEN Return([s EXCEPT !.id_counter = s.id_counter + 1,
                                       !.issued = Append(s.issued, s.id_counter + 1)],
                             t, Err("Source stage must contain independent frames and destination stage must contain batched frames"))
                 ELSE Goto([s EXCEPT !.th[t].source_index = source_index,
                                     !.th[t].dest_index = dest_index],
                           t, "pack_id")

\* lines 529-547.
pack_check(s, t) ==
    LET c == check_ids_in_the_same_stage(s, s.th[t].ids) IN
    IF ~c.ok THEN Return(s, t, c)
    ELSE LET source_index == c.val
             dest_index == find_stage(s.th[t].stage_name, source_index)
         IN IF source_index \notin StageIdx THEN Return(s, t, Err("Source stage not found"))
            ELSE IF dest_index = None THEN Return(s, t, Err("Destination stage not found"))
            ELSE IF stage_type_of(source_index) = "Batch" \/ stage_type_of(dest_index) = "Frame"
                 THEN Return(s, t, Err("Source stage must contain independent frames and destination stage must contain batched frames"))
                 ELSE Goto([s EXCEPT !.th[t].source_index = source_index,
                                     !.th[t].dest_index = dest_index],
                           t, "pack_id")

\* Mutant: the batch ID is read off the counter without incrementing it.
pack_id_load_only(s, t) ==
    LET id == s.id_counter + 1
    IN Goto([s EXCEPT !.issued = Append(s.issued, id),
                      !.th[t].new_id = id], t, "pack_loc")

\* line 549: the batch ID comes from the counter that serves the frames.
pack_id(s, t) ==
    LET id == s.id_counter + 1
    IN Goto([s EXCEPT !.id_counter = s.id_counter + 1,
                      !.issued = Append(s.issued, id),
                      !.th[t].new_id = id], t, "pack_loc")

\* line 551: the members' locations are rewritten to the destination.
pack_loc(s, t) ==
    Goto([s EXCEPT !.frame_locations =
                       update_frame_locations(s.frame_locations, Range(s.th[t].ids),
                                              s.th[t].dest_index),
                   !.th[t].i = 1],
         t, "pack_remove")

\* lines 557-573: one iteration of the loop, the delete of frame_ids[i].
pack_remove(s, t) ==
    LET l == s.th[t]
        id == l.ids[l.i]
        r == stage_delete(s.stages[l.source_index], id)
        last == l.i = Len(l.ids)
    IN IF r.removed = <<>>
       THEN Goto([s EXCEPT !.th[t].i = l.i + 1, !.th[t].j = 1],
                 t, IF ~last THEN "pack_remove"
                    ELSE IF DOMAIN l.contexts = {} THEN "pack_insert" ELSE "pack_end")
       ELSE LET p == r.removed[1] IN
            IF p.kind /= "Frame"
            THEN Return([s EXCEPT !.stages[l.source_index] = r.payload,
                                  !.open_spans = EndSpans(
                                      EndSpans(s.open_spans, PayloadSpans(p)),
                                      {l.contexts[m] : m \in DOMAIN l.contexts})],
                        t, Err("Source stage must contain independent frames"))
            ELSE Goto([s EXCEPT !.stages[l.source_index] = r.payload,
                                !.th[t].batch = MapInsert(l.batch, id, p.frame),
                                !.th[t].contexts = MapInsert(l.contexts, id, p.ctx),
                                !.th[t].batch_updates =
                                    l.batch_updates \o [k \in 1..Len(p.updates) |-> <<id, p.updates[k]>>],
                                !.th[t].i = l.i + 1, !.th[t].j = 1],
                      t, IF last THEN "pack_end" ELSE "pack_remove")

\* line 578: ctx.span().end() of the member the iteration is at.
pack_end(s, t) ==
    LET l == s.th[t]
    IN Goto([s EXCEPT !.open_spans = EndSpans(s.open_spans, {l.contexts[l.order[l.j][2]]})],
            t, "pack_span")

\* lines 579-580: get_stage_span of the member; the next member, or the
\* insert after the last.
pack_span(s, t) ==
    LET l == s.th[t]
        m == l.order[l.j][2]
        ctx == get_stage_span(s, m, <<"stage", l.stage_name>>)
    IN IF m \notin DOMAIN s.root_spans THEN Goto(s, t, "panicked")
       ELSE Goto([s EXCEPT !.open_spans = OpenSpans(s.open_spans, {ctx}),
                           !.th[t].contexts[m] = ctx,
                           !.th[t].j = l.j + 1],
                 t, IF l.j = Len(l.order) THEN "pack_insert" ELSE "pack_end")

\* The insert of lines 584-585 replaced by one that puts the batch into the
\* stage the frames were taken from.
pack_insert_into_source(s, t) ==
    LET l == s.th[t]
    IN Goto([s EXCEPT !.stages[l.source_index] =
                          MapInsert(s.stages[l.source_index], l.new_id,
                                    BatchPayload(l.batch, l.batch_updates, l.contexts)),
                      !.th[t].dest_index = l.source_index],
            t, "pack_batch_loc")

\* lines 584-585: the batch payload is inserted into the destination stage.
pack_insert(s, t) ==
    LET l == s.th[t]
        r == stage_add_batch_payload(l.dest_index, s.stages[l.dest_index], l.new_id,
                                     BatchPayload(l.batch, l.batch_updates, l.contexts))
    IN IF ~r.ok
       THEN Return([s EXCEPT !.open_spans =
                                 EndSpans(s.open_spans, {l.contexts[m] : m \in DOMAIN l.contexts})],
                   t, Err("Stage rejected the payload"))
       ELSE Goto([s EXCEPT !.stages[l.dest_index] = r.payload], t, "pack_batch_loc")

\* Mutant: the batch's own location is not recorded.
pack_batch_loc_skipped(s, t) ==
    Return([s EXCEPT !.live = s.live \cup {s.th[t].new_id}], t, Ok(s.th[t].new_id))

\* lines 586-588: the batch's own location; the batch ID is returned.
pack_batch_loc(s, t) ==
    Return([s EXCEPT !.frame_locations =
                         MapInsert(s.frame_locations, s.th[t].new_id, s.th[t].dest_index),
                     !.live = s.live \cup {s.th[t].new_id}],
           t, Ok(s.th[t].new_id))

(***************************************************************************)
(* Pipeline::move_and_unpack_batch.                                        *)
(***************************************************************************)
\* lines 596-614.
unpack_check(s, t) ==
    LET source_index == get_stage_for_id(s, s.th[t].id) IN
    IF source_index = None THEN Return(s, t, Err("Object location not found"))
    ELSE LET dest_index == find_stage(s.th[t].stage_name, source_index)
         IN IF source_index \notin StageIdx THEN Return(s, t, Err("Source stage not found"))
            ELSE IF dest_index = None THEN Return(s, t, Err("Destination stage not found"))
            ELSE IF stage_type_of(source_index) = "Frame" \/ stage_type_of(dest_index) = "Batch"
                 THEN Return(s, t, Err("Source stage must contain batched frames and destination stage must contain independent frames"))
                 ELSE Goto([s EXCEPT !.th[t].source_index = source_index,
                                     !.th[t].dest_index = dest_index],
                           t, "unpack_remove")

\* lines 616-626: the batch is taken out of the source stage.
unpack_remove(s, t) ==
    LET l == s.th[t]
        r == stage_delete(s.stages[l.source_index], l.id)
    IN IF r.removed = <<>> THEN Return(s, t, Err("Batch not found in source stage"))
       ELSE LET p == r.removed[1] IN
            IF p.kind /= "Batch"
            THEN Return([s EXCEPT !.stages[l.source_index] = r.payload,
                                  !.open_spans = EndSpans(s.open_spans, PayloadSpans(p))],
                        t, Err("Source stage must contain batch"))
            ELSE Goto([s EXCEPT !.stages[l.source_index] = r.payload,
                                !.th[t].batch = p.batch,
                                !.th[t].batch_updates = p.updates,
                                !.th[t].contexts = p.contexts],
                      t, "unpack_batch_loc")

\* Mutant: the batch ID stays in the location map.
unpack_batch_loc_kept(s, t) == Goto(s, t, "unpack_loc")

\* line 628: the batch ID leaves the location map.
unpack_batch_loc(s, t) ==
    Goto([s EXCEPT !.frame_locations = MapRemove(s.frame_locations, s.th[t].id)],
         t, "unpack_loc")

\* lines 630-631: the members' locations are rewritten to the destination.
unpack_loc(s, t) ==
    Goto([s EXCEPT !.frame_locations =
                       update_frame_locations(s.frame_locations, DOMAIN s.th[t].batch,
                                              s.th[t].dest_index),
                   !.th[t].removed = EmptyMap,
                   !.th[t].j = 1],
         t, IF DOMAIN s.th[t].batch = {} THEN "unpack_insert" ELSE "unpack_end")

\* The routing of lines 642-653 replaced by one that drops every update.
updates_of_dropped(batch_updates, m) == <<>>

\* The update list of member `m`: the batch-level updates tagged with m, in order.
RECURSIVE updates_of(_, _)
updates_of(batch_updates, m) ==
    IF batch_updates = <<>> THEN <<>>
    ELSE LET rest == updates_of(Tail(batch_updates), m)
         IN IF Head(batch_updates)[1] = m THEN <<Head(batch_updates)[2]>> \o rest ELSE rest

\* lines 635-636: the member's context is taken out of the batch's contexts
\* (unwrap) and its span ended.
unpack_end(s, t) ==
    LET l == s.th[t]
        m == l.order[l.j][2]
    IN IF m \notin DOMAIN l.contexts THEN Goto(s, t, "panicked")
       ELSE Goto([s EXCEPT !.open_spans = EndSpans(s.open_spans, {l.contexts[m]})],
                 t, "unpack_span")

\* lines 637-639: get_stage_span of the member, which becomes a frame
\* payload with no updates; the next member, or the routing after the last.
unpack_span(s, t) ==
    LET l == s.th[t]
        m == l.order[l.j][2]
        ctx == get_stage_span(s, m, <<"stage", l.stage_name>>)
    IN IF m \notin DOMAIN s.root_spans THEN Goto(s, t, "panicked")
       ELSE Goto([s EXCEPT !.open_spans = OpenSpans(s.open_spans, {ctx}),
                           !.th[t].removed =
                               MapInsert(l.removed, m, FramePayload(l.batch[m], <<>>, ctx)),
                           !.th[t].j = l.j + 1],
                 t, IF l.j = Len(l.order) THEN "unpack_insert" ELSE "unpack_end")

\* lines 642-657: the updates are routed to the members, then add_payloads
\* on the destination; the member IDs are returned.  The contexts the batch
\* held for IDs that are no members are dropped with it.
unpack_insert(s, t) ==
    LET l == s.th[t]
        members == DOMAIN l.batch
        payloads == [m \in members |->
                        FramePayload(l.batch[m], updates_of(l.batch_updates, m),
                                     l.removed[m].ctx)]
        left == {l.contexts[m] : m \in DOMAIN l.contexts \ members}
        r == stage_add_payloads(l.dest_index, s.stages[l.dest_index], payloads)
    IN IF \E k \in 1..Len(l.batch_updates) : l.batch_updates[k][1] \notin members
       THEN Return([s EXCEPT !.open_spans =
                                 EndSpans(EndSpans(s.open_spans, SpansOf(l.removed)), left)],
                   t, Err("Frame not found in destination stage"))
       ELSE IF ~r.ok
       THEN Return([s EXCEPT !.open_spans =
                                 EndSpans(EndSpans(s.open_spans, SpansOf(l.removed)), left)],
                   t, Err("Stage rejected the payloads"))
       ELSE Return([s EXCEPT !.stages[l.dest_index] = r.payload,
                             !.open_spans = EndSpans(s.open_spans, left),
                             !.live = s.live \ {l.id}],
                   t, Ok(DOMAIN l.batch))

(***************************************************************************)
(* Pipeline: queries.  Each is a read of the location map followed by a    *)
(* read of the stage; evaluated on a state they give what a caller running *)
(* alone in that state gets.                                               *)
(***************************************************************************)
get_stage_queue_len(s, stage) ==
    LET i == find_stage(stage, 0)
    IN IF i = None THEN Err("Stage not found") ELSE Ok(stage_len(s.stages[i]))

get_independent_frame(s, frame_id) ==
    LET stage == get_stage_for_id(s, frame_id)
    IN IF stage = None THEN Err("Object location not found")
       ELSE IF stage \notin StageIdx THEN Err("Stage not found")
       ELSE stage_get_independent_frame(s.stages[stage], frame_id)

get_batched_frame(s, batch_id, frame_id) ==
    LET stage == get_stage_for_id(s, batch_id)
    IN IF stage = None THEN Err("Object location not found")
       ELSE IF stage \notin StageIdx THEN Err("Stage not found")
       ELSE stage_get_batched_frame(s.stages[stage], batch_id, frame_id)

get_batch(s, batch_id) ==
    LET stage == get_stage_for_id(s, batch_id)
    IN IF stage = None THEN Err("Object location not found")
       ELSE IF stage \notin StageIdx THEN Err("Stage not found")
       ELSE stage_get_batch(s.stages[stage], batch_id)

get_id_locations_len(s) == Cardinality(DOMAIN s.frame_locations)

(***************************************************************************)
(* Execution of the steps.                                                 *)
(***************************************************************************)
\* The steps that take the root_spans lock (read or write).
RootSpansPcs == {"awt_root", "awt_span", "delete_root", "move_as_is_span",
                 "pack_span", "unpack_span"}

Running(s, t) == s.th[t].pc \notin ({"idle"} \cup BlockedPcs \cup PanickedPcs)

CanStep(s, t) ==
    /\ Running(s, t)
    /\ s.th[t].pc \in RootSpansPcs => s.root_spans_lock = 0

\* The orders the iteration of the thread may take: the one it has taken,
\* or, where the iteration starts, every order of its work items.
Orders(s, t) ==
    LET l == s.th[t] IN
    IF l.order /= <<>> THEN {l.order}
    ELSE CASE l.pc = "move_as_is_end" -> IterationOrders(MoveItems(l.removed))
           [] l.pc = "pack_end"       -> IterationOrders(MemberItems(DOMAIN l.contexts))
           [] l.pc = "unpack_end"     -> IterationOrders(MemberItems(DOMAIN l.batch))
           [] OTHER                   -> {<<>>}

WithOrder(s, t, o) == [s EXCEPT !.th[t].order = o]

\* The ascending one of the orders.
FirstOrder(s, t) ==
    CHOOSE o \in Orders(s, t) :
        \A a, b \in 1..Len(o) :
            a < b => (o[a][1] < o[b][1] \/ (o[a][1] = o[b][1] /\ o[a][2] < o[b][2]))

Step(s, t) ==
    LET pc == s.th[t].pc IN
    CASE pc = "add_frame"         -> add_frame_period(s, t)
      [] pc = "add_frame_load"    -> add_frame_load(s, t)
      [] pc = "add_frame_ctx"     -> add_frame_ctx(s, t)
      [] pc = "awt_check"         -> awt_check(s, t)
      [] pc = "awt_id"            -> awt_id(s, t)
      [] pc = "awt_name"          -> awt_name(s, t)
      [] pc = "awt_root"          -> awt_root(s, t)
      [] pc = "awt_span"          -> awt_span(s, t)
      [] pc = "awt_insert"        -> awt_insert(s, t)
      [] pc = "awt_loc"           -> awt_loc(s, t)
      [] pc = "delete"            -> delete_location(s, t)
      [] pc = "delete_stage"      -> delete_stage(s, t)
      [] pc = "delete_root"       -> delete_root(s, t)
      [] pc = "move_as_is"        -> move_as_is_check(s, t)
      [] pc = "move_as_is_remove" -> move_as_is_remove(s, t)
      [] pc = "move_as_is_loc"    -> move_as_is_loc(s, t)
      [] pc = "move_as_is_end"    -> move_as_is_end(s, t)
      [] pc = "move_as_is_span"   -> move_as_is_span(s, t)
      [] pc = "move_as_is_insert" -> move_as_is_insert(s, t)
      [] pc = "pack"              -> pack_check(s, t)
      [] pc = "pack_id"           -> pack_id(s, t)
      [] pc = "pack_loc"          -> pack_loc(s, t)
      [] pc = "pack_remove"       -> pack_remove(s, t)
      [] pc = "pack_end"          -> pack_end(s, t)
      [] pc = "pack_span"         -> pack_span(s, t)
      [] pc = "pack_insert"       -> pack_insert(s, t)
      [] pc = "pack_batch_loc"    -> pack_batch_loc(s, t)
      [] pc = "unpack"            -> unpack_check(s, t)
      [] pc = "unpack_remove"     -> unpack_remove(s, t)
      [] pc = "unpack_batch_loc"  -> unpack_batch_loc(s, t)
      [] pc = "unpack_loc"        -> unpack_loc(s, t)
      [] pc = "unpack_end"        -> unpack_end(s, t)
      [] pc = "unpack_span"       -> unpack_span(s, t)
      [] pc = "unpack_insert"     -> unpack_insert(s, t)

\* The thread runs alone until its method returns, blocks or panics; its
\* iterations take the ascending order.
RECURSIVE Run(_, _)
Run(s, t) ==
    IF CanStep(s, t) THEN Run(Step(WithOrder(s, t, FirstOrder(s, t)), t), t) ELSE s

\* Entry into a method: `c` gives pc, op and the arguments.
Call(s, t, c) ==
    [s EXCEPT !.th[t] = [IdleTh EXCEPT !.pc = c.pc, !.op = c.pc,
                                       !.stage_name = c.stage_name, !.ids = c.ids,
                                       !.id = c.id, !.frame = c.frame,
                                       !.parent_valid = c.parent_valid]]

NoArgs == [pc |-> "idle", stage_name |-> "", ids |-> <<>>, id |-> 0, frame |-> NoFrame,
           parent_valid |-> FALSE]

\* The whole methods, as a single caller sees them.
add_frame(s, t, stage_name, frame) ==
    Run(Call(s, t, [NoArgs EXCEPT !.pc = "add_frame", !.stage_name = stage_name,
                                  !.frame = frame]), t)

add_frame_with_telemetry(s, t, stage_name, frame, parent_valid) ==
    Run(Call(s, t, [NoArgs EXCEPT !.pc = "awt_check", !.stage_name = stage_name,
                                  !.frame = frame, !.parent_valid = parent_valid]), t)

delete(s, t, id) ==
    Run(Call(s, t, [NoArgs EXCEPT !.pc = "delete", !.id = id]), t)

move_as_is(s, t, dest_stage_name, object_ids) ==
    Run(Call(s, t, [NoArgs EXCEPT !.pc = "move_as_is", !.stage_name = dest_stage_name,
                                  !.ids = object_ids]), t)

move_and_pack_frames(s, t, dest_stage_name, frame_ids) ==
    Run(Call(s, t, [NoArgs EXCEPT !.pc = "pack", !.stage_name = dest_stage_name,
                                  !.ids = frame_ids]), t)

move_and_unpack_batch(s, t, dest_stage_name, batch_id) ==
    Run(Call(s, t, [NoArgs EXCEPT !.pc = "unpack", !.stage_name = dest_stage_name,
                                  !.id = batch_id]), t)

(***************************************************************************)
(* The pipeline after Pipeline::new(StageDefs), and the empty key-value    *)
(* store of WsData::new.                                                   *)
(***************************************************************************)
Init ==
    /\ id_counter = 0
    /\ frame_counter = 0
    /\ root_spans = EmptyMap
    /\ root_spans_lock = 0
    /\ stages = [i \in StageIdx |-> EmptyMap]
    /\ frame_locations = EmptyMap
    /\ sampling_period = <<>>
    /\ root_span_name = <<>>
    /\ open_spans = {}
    /\ th = [t \in Threads |-> IdleTh]
    /\ issued = <<>>
    /\ admitted = {}
    /\ deleted = {}
    /\ live = {}
    /\ calls = 0
    /\ kvs = EmptyMap
    /\ kvs_th = [t \in Threads |-> [pc |-> "idle", attributes |-> <<>>, ttl |-> <<>>, keys |-> {}]]
    /\ now = 0
    /\ status = "Stopped"
    /\ shutdown_token = <<>>
    /\ shutdown_status = <<>>
    /\ ws_job = <<>>
    /\ pid = 0
    /\ shutdown_signal_no = <<>>
    /\ tasks = <<>>
    /\ requests = <<>>
    /\ signals = <<>>
    /\ jobs = <<>>
    /\ init_th = [t \in Threads |-> [pc |-> "idle", job |-> 0]]

(***************************************************************************)
(* Sequential specification: one caller (thread 1), one whole method per   *)
(* step.                                                                   *)
(***************************************************************************)
Idle(t) == th[t].pc = "idle"

\* The frame the caller submits next.
NextFrame == <<"frame", frame_counter + 1>>

AddFrame ==
    /\ Idle(1) /\ id_counter < MaxId
    /\ \E stage_name \in NameArgs :
           Install(Forget(add_frame(State, 1, stage_name, NextFrame)))

AddFrameWithTelemetry ==
    /\ Idle(1) /\ id_counter < MaxId
    /\ \E stage_name \in NameArgs, parent_valid \in BOOLEAN :
           Install(Forget(add_frame_with_telemetry(State, 1, stage_name, NextFrame, parent_valid)))

Delete ==
    /\ Idle(1)
    /\ \E id \in IdArgs : Install(Forget(delete(State, 1, id)))

MoveAsIs ==
    /\ Idle(1)
    /\ \E dest \in NameArgs, ids \in IdLists : Install(Forget(move_as_is(State, 1, dest, ids)))

MoveAndPackFrames ==
    /\ Idle(1) /\ id_counter < MaxId
    /\ \E dest \in NameArgs, ids \in IdLists :
           Install(Forget(move_and_pack_frames(State, 1, dest, ids)))

MoveAndUnpackBatch ==
    /\ Idle(1)
    /\ \E dest \in NameArgs, id \in IdArgs :
           Install(Forget(move_and_unpack_batch(State, 1, dest, id)))

Next ==
    \/ AddFrame
    \/ AddFrameWithTelemetry
    \/ Delete
    \/ MoveAsIs
    \/ MoveAndPackFrames
    \/ MoveAndUnpackBatch

Spec == Init /\ [][Next]_vars

(***************************************************************************)
(* Concurrent specification: every thread calls methods; a step of the     *)
(* specification is one step of one thread.  Entering a method and taking  *)
(* its first step (which touches no lock another step holds) is one step.  *)
(***************************************************************************)
\* The methods that allocate an ID, and the places before the allocation.
AllocEntryPcs == {"add_frame", "awt_check", "pack"}

BeforeAllocPcs == {"add_frame", "add_frame_load", "add_frame_ctx", "awt_check", "awt_id", "pack",
                   "pack_id"}

Pending == Cardinality({t \in Threads : th[t].pc \in BeforeAllocPcs})

CallArgs ==
    {[NoArgs EXCEPT !.pc = "add_frame", !.stage_name = n, !.frame = NextFrame] :
        n \in NameArgs}
    \cup {[NoArgs EXCEPT !.pc = "awt_check", !.stage_name = n, !.frame = NextFrame,
                         !.parent_valid = v] : n \in NameArgs, v \in BOOLEAN}
    \cup {[NoArgs EXCEPT !.pc = "delete", !.id = i] : i \in IdArgs}
    \cup {[NoArgs EXCEPT !.pc = "move_as_is", !.stage_name = n, !.ids = q] :
            n \in NameArgs, q \in IdLists}
    \cup {[NoArgs EXCEPT !.pc = "pack", !.stage_name = n, !.ids = q] :
            n \in NameArgs, q \in IdLists}
    \cup {[NoArgs EXCEPT !.pc = "unpack", !.stage_name = n, !.id = i] :
            n \in NameArgs, i \in IdArgs}

ThreadCall(t) ==
    /\ Idle(t) /\ calls < MaxCalls
    /\ \E c \in CallArgs :
          /\ c.pc \in AllocEntryPcs => id_counter + Pending < MaxId
          /\ Install(Forget(Step(Call([State EXCEPT !.calls = calls + 1], t, c), t)))

ThreadStep(t) ==
    /\ CanStep(State, t)
    /\ \E o \in Orders(State, t) : Install(Forget(Step(WithOrder(State, t, o), t)))

ConcNext == \E t \in Threads : ThreadCall(t) \/ ThreadStep(t)

ConcSpec == Init /\ [][ConcNext]_vars

(***************************************************************************)
(* Notions the properties share.                                           *)
(***************************************************************************)
AllIdle == \A t \in Threads : th[t].pc = "idle"

Succeeded(n) == n.th[1].pc = "idle" /\ n.th[1].ret.ok

Failed(n) == n.th[1].pc = "idle" /\ ~n.th[1].ret.ok

\* The batches of stage `i` that have `id` as a member.
BatchesWith(s, i, id) ==
    {b \in DOMAIN s.stages[i] :
        s.stages[i][b].kind = "Batch" /\ id \in DOMAIN s.stages[i][b].batch}

\* `id` is the ID of a batch held in some stage.
IsBatchId(s, id) ==
    \E i \in StageIdx : id \in DOMAIN s.stages[i] /\ s.stages[i][id].kind = "Batch"

\* `id` is a live independent frame: located in a stage that holds it as a frame.
IsIndependentFrame(s, id) ==
    /\ id \in DOMAIN s.frame_locations
    /\ id \in DOMAIN s.stages[s.frame_locations[id]]
    /\ s.stages[s.frame_locations[id]][id].kind = "Frame"

\* `id` is a batch held in the Batch stage its location names.
IsLocatedBatch(s, id) ==
    /\ id \in DOMAIN s.frame_locations
    /\ stage_type_of(s.frame_locations[id]) = "Batch"
    /\ id \in DOMAIN s.stages[s.frame_locations[id]]
    /\ s.stages[s.frame_locations[id]][id].kind = "Batch"

\* Every ID the pipeline stores somewhere.
StoredIds(s) ==
    DOMAIN s.frame_locations \cup DOMAIN s.root_spans
    \cup UNION {DOMAIN s.stages[i] : i \in StageIdx}

\* What the claims call "the pipeline is unchanged".
Core(s) == <<s.id_counter, s.frame_counter, s.root_spans, s.frame_locations, s.stages>>

(***************************************************************************)
(* C1.  Whenever no operation is in progress, every ID that the            *)
(* payload-location map maps to stage index s is matched in stage s (a     *)
(* payload with that ID, or a batch of stage s that has the ID as member), *)
(* and every frame ID in the map has a root-span entry.                    *)
(* The code breaks it: move_as_is of a batch rewrites only the batch's own *)
(* location, the members keep pointing at the stage the batch has left.    *)
(***************************************************************************)
C1_LocationsMatchStages ==
    AllIdle =>
        \A id \in DOMAIN frame_locations :
            /\ \/ id \in DOMAIN stages[frame_locations[id]]
               \/ BatchesWith(State, frame_locations[id], id) /= {}
            /\ ~IsBatchId(State, id) => id \in DOMAIN root_spans

(***************************************************************************)
(* C2.  delete(batchId) of a batch held in a Batch stage returns: it ends  *)
(* in a state where the call has come back with one entry per member,      *)
(* every member's stage span ended and every member's root span removed.   *)
(* The code breaks it: the Batch arm of delete takes root_spans.write()    *)
(* while the same call still holds it.                                     *)
(***************************************************************************)
C2_DeleteBatchReturns ==
    \A id \in IdArgs :
        (AllIdle /\ IsLocatedBatch(State, id)) =>
            LET n == delete(State, 1, id)
                members == DOMAIN stages[frame_locations[id]][id].batch
            IN /\ Succeeded(n)
               /\ DOMAIN n.th[1].ret.val = members
               /\ \A m \in members : n.th[1].ret.val[m] = root_spans[m]
               /\ \A m \in members : m \notin DOMAIN n.root_spans
               /\ n.open_spans \cap PayloadSpans(stages[frame_locations[id]][id]) = {}

(***************************************************************************)
(* C3.  Every successful movement leaves the moved payload in a stage of   *)
(* strictly greater index than its source stage; move_as_is naming the     *)
(* stage the payloads are in is rejected.                                  *)
(* The code breaks it: find_stage(dest, source_index) starts the search at *)
(* the source stage itself.                                                *)
(***************************************************************************)
C3_MovesStrictlyForward ==
    AllIdle =>
        /\ \A dest \in NameArgs, ids \in IdLists :
              LET n == move_as_is(State, 1, dest, ids)
              IN Succeeded(n) =>
                    \A id \in Range(ids) : n.frame_locations[id] > frame_locations[id]
        /\ \A dest \in NameArgs, ids \in IdLists :
              LET n == move_and_pack_frames(State, 1, dest, ids)
              IN Succeeded(n) =>
                    \A id \in Range(ids) : n.frame_locations[id] > frame_locations[id]
        /\ \A dest \in NameArgs, id \in IdArgs :
              LET n == move_and_unpack_batch(State, 1, dest, id)
              IN Succeeded(n) =>
                    \A m \in n.th[1].ret.val : n.frame_locations[m] > frame_locations[id]

(***************************************************************************)
(* C5.  add_frame / add_frame_with_telemetry naming a Batch stage or a     *)
(* stage that does not exist returns an error and leaves ID counter, frame *)
(* counter, root-span map, payload-location map and every stage unchanged. *)
(* The code breaks it for a name no stage has: only the Batch kind is      *)
(* checked before the counters are incremented.                            *)
(***************************************************************************)
BadAddNames == {name \in NameArgs : find_stage_type(name, 0) /= "Frame"}

C5_RejectedAddChangesNothing ==
    AllIdle =>
        \A name \in BadAddNames :
            /\ LET n == add_frame(State, 1, name, NextFrame)
               IN Failed(n) /\ Core(n) = Core(State)
            /\ \A v \in BOOLEAN :
                  LET n == add_frame_with_telemetry(State, 1, name, NextFrame, v)
                  IN Failed(n) /\ Core(n) = Core(State)

(***************************************************************************)
(* C6.  A successful move_and_pack_frames(dest, ids) returns a fresh batch *)
(* ID; the source stage has lost as many payloads as there are distinct    *)
(* ids, the destination Batch stage has gained exactly one, get_batch of   *)
(* the new ID holds exactly the given ids as members, and for every member *)
(* get_batched_frame succeeds while get_independent_frame fails.           *)
(***************************************************************************)
C6_PackPost ==
    AllIdle =>
        \A dest \in NameArgs, ids \in IdLists :
            LET n == move_and_pack_frames(State, 1, dest, ids) IN
            Succeeded(n) =>
                LET batch_id == n.th[1].ret.val
                    src == frame_locations[ids[1]]
                    dst == find_stage(dest, src)
                IN /\ stage_type_of(src) = "Frame" /\ stage_type_of(dst) = "Batch"
                   /\ batch_id \notin Range(issued)
                   /\ batch_id \notin DOMAIN frame_locations
                   /\ \A i \in StageIdx : batch_id \notin DOMAIN stages[i]
                   /\ stage_len(n.stages[src]) = stage_len(stages[src]) - Cardinality(Range(ids))
                   /\ stage_len(n.stages[dst]) = stage_len(stages[dst]) + 1
                   /\ get_batch(n, batch_id).ok
                   /\ DOMAIN get_batch(n, batch_id).val[1] = Range(ids)
                   /\ \A id \in Range(ids) :
                         /\ get_batched_frame(n, batch_id, id).ok
                         /\ get_batched_frame(n, batch_id, id).val[1]
                                = stages[src][id].frame
                         /\ ~get_independent_frame(n, id).ok

\* A pack of two frames has acted: a located batch of two members, each
\* resolved through the batch and not as an independent frame.
C6_Witness ==
    /\ AllIdle
    /\ \E b \in DOMAIN frame_locations :
          /\ IsLocatedBatch(State, b)
          /\ Cardinality(DOMAIN get_batch(State, b).val[1]) = 2
          /\ \A m \in DOMAIN get_batch(State, b).val[1] :
                /\ get_batched_frame(State, b, m).ok
                /\ ~get_independent_frame(State, m).ok

(***************************************************************************)
(* C7.  A successful move_and_unpack_batch(dest, batchId) returns exactly  *)
(* the member IDs of the batch; the batch is gone from its source stage,   *)
(* batchId has left the payload-location map (get_batch fails), the        *)
(* destination IndependentFrame stage has grown by the number of members,  *)
(* and get_independent_frame succeeds for every member.                    *)
(***************************************************************************)
C7_UnpackPost ==
    AllIdle =>
        \A dest \in NameArgs, id \in IdArgs :
            LET n == move_and_unpack_batch(State, 1, dest, id) IN
            Succeeded(n) =>
                LET src == frame_locations[id]
                    dst == find_stage(dest, src)
                    members == DOMAIN stages[src][id].batch
                IN /\ n.th[1].ret.val = members
                   /\ id \notin DOMAIN n.stages[src]
                   /\ id \notin DOMAIN n.frame_locations
                   /\ ~get_batch(n, id).ok
                   /\ stage_type_of(dst) = "Frame"
                   /\ stage_len(n.stages[dst]) = stage_len(stages[dst]) + Cardinality(members)
                   /\ \A m \in members :
                         /\ get_independent_frame(n, m).ok
                         /\ get_independent_frame(n, m).val[1] = stages[src][id].batch[m]

\* An unpack of a batch of two traced members has acted: two frames hold a
\* span "stage/output" in the last stage, and the batch ID (allocated, never
\* a frame) is in no map.
C7_Witness ==
    /\ AllIdle
    /\ Cardinality({id \in DOMAIN stages[3] :
                        /\ stages[3][id].ctx.valid
                        /\ stages[3][id].ctx.name = <<"stage", "output">>
                        /\ get_independent_frame(State, id).ok}) = 2
    /\ \E b \in Range(issued) :
          /\ b \notin StoredIds(State)
          /\ b \notin deleted

(***************************************************************************)
(* C8.  A successful move_as_is(dest, ids) between two stages of the same  *)
(* kind moves every listed payload unchanged: the source stage shrinks by  *)
(* the number of ids, the destination grows by the same number, and the    *)
(* same IDs resolve afterwards through get_independent_frame (Frame        *)
(* stages) or get_batch (Batch stages).                                    *)
(* The code breaks it: the ID of a frame packed in a batch is located in   *)
(* the batch's stage, so move_as_is accepts it, moves nothing and returns  *)
(* Ok.                                                                     *)
(***************************************************************************)
C8_MoveAsIsPost ==
    AllIdle =>
        \A dest \in NameArgs, ids \in IdLists :
            LET n == move_as_is(State, 1, dest, ids) IN
            (Succeeded(n) /\ find_stage(dest, frame_locations[ids[1]]) /= frame_locations[ids[1]]) =>
                LET src == frame_locations[ids[1]]
                    dst == find_stage(dest, src)
                    k == Cardinality(Range(ids))
                IN /\ stage_type_of(src) = stage_type_of(dst)
                   /\ stage_len(n.stages[src]) = stage_len(stages[src]) - k
                   /\ stage_len(n.stages[dst]) = stage_len(stages[dst]) + k
                   /\ \A id \in Range(ids) :
                         IF stage_type_of(dst) = "Frame"
                         THEN /\ get_independent_frame(n, id).ok
                              /\ get_independent_frame(n, id).val[1] = stages[src][id].frame
                              /\ n.stages[dst][id].updates = stages[src][id].updates
                         ELSE /\ get_batch(n, id).ok
                              /\ get_batch(n, id).val[1] = stages[src][id].batch
                              /\ n.stages[dst][id].updates = stages[src][id].updates

(***************************************************************************)
(* C10.  A movement operation invoked with an empty ID list, an unknown    *)
(* ID, IDs located in different stages, a destination name not found at or *)
(* after the source index, or stage kinds that break the operation's rule  *)
(* returns an error and leaves the ID counter, the payload-location map,   *)
(* the root-span map and every stage unchanged.                            *)
(***************************************************************************)
MoveCore(s) == <<s.id_counter, s.frame_locations, s.root_spans, s.stages>>

KindRule(op, src, dst) ==
    CASE op = "move_as_is" -> stage_type_of(src) = stage_type_of(dst)
      [] op = "pack"       -> stage_type_of(src) = "Frame" /\ stage_type_of(dst) = "Batch"
      [] op = "unpack"     -> stage_type_of(src) = "Batch" /\ stage_type_of(dst) = "Frame"

\* The inputs the claim lists, read off the arguments and the location map.
BadMove(op, dest, ids) ==
    \/ Len(ids) = 0
    \/ \E id \in Range(ids) : id \notin DOMAIN frame_locations
    \/ /\ Range(ids) \subseteq DOMAIN frame_locations
       /\ \E a, b \in Range(ids) : frame_locations[a] /= frame_locations[b]
    \/ /\ Len(ids) > 0
       /\ Range(ids) \subseteq DOMAIN frame_locations
       /\ \A a, b \in Range(ids) : frame_locations[a] = frame_locations[b]
       /\ LET src == frame_locations[ids[1]]
          IN \/ \A i \in StageIdx : i >= src => stage_name_of(i) /= dest
             \/ \E i \in StageIdx :
                   /\ i >= src /\ stage_name_of(i) = dest
                   /\ \A j \in StageIdx : (j >= src /\ j < i) => stage_name_of(j) /= dest
                   /\ ~KindRule(op, src, i)

C10_RejectedMoveChangesNothing ==
    AllIdle =>
        /\ \A dest \in NameArgs, ids \in IdLists :
              /\ BadMove("move_as_is", dest, ids) =>
                    LET n == move_as_is(State, 1, dest, ids)
                    IN Failed(n) /\ MoveCore(n) = MoveCore(State)
              /\ BadMove("pack", dest, ids) =>
                    LET n == move_and_pack_frames(State, 1, dest, ids)
                    IN Failed(n) /\ MoveCore(n) = MoveCore(State)
        /\ \A dest \in NameArgs, id \in IdArgs :
              BadMove("unpack", dest, <<id>>) =>
                  LET n == move_and_unpack_batch(State, 1, dest, id)
                  IN Failed(n) /\ MoveCore(n) = MoveCore(State)

\* A frame and a batch live in different stages: mixed-stage lists, backward
\* destinations and kind violations all exist for this state.
C10_Witness ==
    /\ AllIdle
    /\ \E a, b \in DOMAIN frame_locations :
          /\ frame_locations[a] /= frame_locations[b]
          /\ IsIndependentFrame(State, a) /\ IsLocatedBatch(State, b)
          /\ frame_locations[b] = 2
          /\ BadMove("move_as_is", "proc1", <<b>>)
          /\ BadMove("pack", "proc2", <<a, b>>)
          /\ BadMove("unpack", "proc2", <<b>>)
          /\ BadMove("pack", "output", <<a>>)

(***************************************************************************)
(* C4.  The IDs taken from the pipeline's counter (frame IDs and batch IDs *)
(* share it) are pairwise distinct and strictly increasing in allocation   *)
(* order and start at 1; no two callers hold the same new ID, every ID the *)
(* pipeline stores has been allocated, and the ID of a deleted frame is    *)
(* never allocated again.  Checked for every interleaving of the threads.  *)
(***************************************************************************)
C4_IdsStrictlyIncreasing ==
    /\ Len(issued) > 0 => issued[1] = 1
    /\ \A i, j \in 1..Len(issued) : i < j => issued[i] < issued[j]
    /\ \A t \in Threads : th[t].new_id /= 0 => th[t].new_id \in Range(issued)
    /\ \A t1, t2 \in Threads :
          (t1 /= t2 /\ th[t1].new_id /= 0) => th[t1].new_id /= th[t2].new_id
    /\ StoredIds(State) \subseteq Range(issued)
    /\ \A id \in deleted :
          Cardinality({i \in 1..Len(issued) : issued[i] = id}) = 1

\* Two threads are past their allocation at the same time.
C4_Witness ==
    \E t1, t2 \in Threads :
        /\ t1 /= t2
        /\ th[t1].new_id /= 0 /\ th[t2].new_id /= 0
        /\ th[t1].pc /= "idle" /\ th[t2].pc /= "idle"

\* An ID is allocated after a frame has been deleted.
C4_WitnessReuse ==
    \E id \in deleted : id < id_counter

(***************************************************************************)
(* The once-settable cells: sampling period and root span name.            *)
(* OnceLock::set fills an empty cell and fails on a filled one;            *)
(* get_or_init fills an empty cell with the default and returns the value. *)
(***************************************************************************)
\* Largest sampling period a caller sets.
MaxPeriod == 2
\* Number of add_frame calls in the sampling specification.
MaxFrames == 4

PeriodArgs == 0..MaxPeriod

RootNameArgs == {"custom", "other"}

set_root_span_name(s, t, name) ==
    IF s.root_span_name = <<>>
    THEN Return([s EXCEPT !.root_span_name = <<name>>], t, Ok(<<>>))
    ELSE Return(s, t, Err("Root span name can only be set once"))

\* The setter with OnceLock::set replaced by an unconditional store.
set_sampling_period_overwrite(s, t, period) ==
    Return([s EXCEPT !.sampling_period = <<period>>], t, Ok(<<>>))

set_sampling_period(s, t, period) ==
    IF s.sampling_period = <<>>
    THEN Return([s EXCEPT !.sampling_period = <<period>>], t, Ok(<<>>))
    ELSE Return(s, t, Err("Sampling period can only be set once"))

\* The public getters: the value, and the cell filled with it.
pipeline_get_sampling_period(s, t) ==
    Return([s EXCEPT !.sampling_period = <<get_sampling_period(s)>>], t,
           Ok(get_sampling_period(s)))

pipeline_get_root_span_name(s, t) ==
    Return([s EXCEPT !.root_span_name = <<get_root_span_name(s)>>], t,
           Ok(get_root_span_name(s)))

SetSamplingPeriod ==
    /\ Idle(1)
    /\ \E period \in PeriodArgs : Install(Forget(set_sampling_period(State, 1, period)))

SetRootSpanName ==
    /\ Idle(1)
    /\ \E name \in RootNameArgs : Install(Forget(set_root_span_name(State, 1, name)))

GetSamplingPeriod ==
    /\ Idle(1)
    /\ Install(Forget(pipeline_get_sampling_period(State, 1)))

GetRootSpanName ==
    /\ Idle(1)
    /\ Install(Forget(pipeline_get_root_span_name(State, 1)))

(***************************************************************************)
(* Sampling specification: one caller that sets the sampling period and    *)
(* admits frames with add_frame only.                                      *)
(***************************************************************************)
AddFrameSampled ==
    /\ Idle(1) /\ frame_counter < MaxFrames
    /\ \E stage_name \in NameArgs :
           Install(Forget(add_frame(State, 1, stage_name, NextFrame)))

SamplingNext ==
    \/ SetSamplingPeriod
    \/ AddFrameSampled

SamplingSpec == Init /\ [][SamplingNext]_vars

(***************************************************************************)
(* Configuration specification: one caller that uses the setters, the      *)
(* getters and both ingress methods.                                       *)
(***************************************************************************)
ConfigNext ==
    \/ SetSamplingPeriod
    \/ SetRootSpanName
    \/ GetSamplingPeriod
    \/ GetRootSpanName
    \/ AddFrame
    \/ AddFrameWithTelemetry

ConfigSpec == Init /\ [][ConfigNext]_vars

(***************************************************************************)
(* C11.  With a single caller and the sampling period N set before the     *)
(* first ingress (N = 0 when never set), the k-th frame admitted by        *)
(* add_frame gets a valid trace context exactly when N > 0 and             *)
(* k mod N = 0.  In the sampling specification nothing is deleted or       *)
(* packed, so the frames admitted so far are the located IDs; a setter     *)
(* call after the first ingress fails and leaves N = 0.                    *)
(* The code breaks it: an add_frame naming a stage that does not exist     *)
(* admits nothing but increments the frame counter the sampling reads.     *)
(***************************************************************************)
Admitted == Cardinality(DOMAIN frame_locations)

C11_SamplingPattern ==
    \A stage_name \in NameArgs :
        LET n == add_frame(State, 1, stage_name, NextFrame)
            k == Admitted + 1
            N == get_sampling_period(State)
            id == n.th[1].ret.val
        IN Succeeded(n) =>
              /\ n.root_spans[id].valid <=> (N > 0 /\ k % N = 0)
              /\ get_independent_frame(n, id).ok
              /\ get_independent_frame(n, id).val[2].valid <=> (N > 0 /\ k % N = 0)

(***************************************************************************)
(* C12.  The first call to set_sampling_period, and the first call to      *)
(* set_root_span_name, succeeds whatever operations preceded it (getters   *)
(* and add_frame included), and every later call to the same setter fails. *)
(* A successful setter call is read off the cell: callers never set the    *)
(* default name, and a period above 0 is never a default; a cell holding   *)
(* the period 0 may come from either and is left aside.                    *)
(* The code breaks it: the getters and add_frame read the cells with       *)
(* get_or_init, which fills an empty cell with the default, so the first   *)
(* setter call after a read fails.                                         *)
(***************************************************************************)
NameSetByCaller == root_span_name /= <<>> /\ root_span_name[1] \in RootNameArgs

PeriodSetByCaller == sampling_period /= <<>> /\ sampling_period[1] > 0

C12_FirstSetSucceeds ==
    /\ \A name \in RootNameArgs :
          LET n == set_root_span_name(State, 1, name)
          IN IF NameSetByCaller
             THEN Failed(n) /\ n.root_span_name = root_span_name
             ELSE Succeeded(n) /\ n.root_span_name = <<name>>
    /\ \A period \in PeriodArgs :
          LET n == set_sampling_period(State, 1, period)
          IN IF PeriodSetByCaller
             THEN Failed(n) /\ n.sampling_period = sampling_period
             ELSE sampling_period = <<>> => (Succeeded(n) /\ n.sampling_period = <<period>>)

(***************************************************************************)
(* C13.  get_sampling_period returns 0 and get_root_span_name returns      *)
(* "video_pipeline" when the cell is empty; a getter returns the value the *)
(* cell holds and leaves the cell holding that value; a setter call that   *)
(* fails leaves the cell as it was; and a filled cell is never changed by  *)
(* any operation, so every later read returns the same value.              *)
(***************************************************************************)
C13_Reads ==
    /\ LET n == pipeline_get_sampling_period(State, 1)
           v == n.th[1].ret.val
       IN /\ Succeeded(n)
          /\ sampling_period = <<>> => v = 0
          /\ sampling_period /= <<>> => v = sampling_period[1]
          /\ n.sampling_period = <<v>>
          /\ pipeline_get_sampling_period(n, 1).th[1].ret.val = v
    /\ LET n == pipeline_get_root_span_name(State, 1)
           v == n.th[1].ret.val
       IN /\ Succeeded(n)
          /\ root_span_name = <<>> => v = "video_pipeline"
          /\ root_span_name /= <<>> => v = root_span_name[1]
          /\ n.root_span_name = <<v>>
          /\ pipeline_get_root_span_name(n, 1).th[1].ret.val = v
    /\ \A period \in PeriodArgs :
          LET n == set_sampling_period(State, 1, period)
          IN Failed(n) => n.sampling_period = sampling_period
    /\ \A name \in RootNameArgs :
          LET n == set_root_span_name(State, 1, name)
          IN Failed(n) => n.root_span_name = root_span_name

C13_Steps ==
    /\ sampling_period /= <<>> => sampling_period' = sampling_period
    /\ root_span_name /= <<>> => root_span_name' = root_span_name

C13_CellsKeepTheirValue == []C13_Reads /\ [][C13_Steps]_vars

\* The period was set by the caller, the name was filled by a read, frames
\* were admitted since, and a setter call made now fails.
C13_Witness ==
    /\ sampling_period = <<MaxPeriod>>
    /\ root_span_name = <<DEFAULT_ROOT_SPAN_NAME>>
    /\ frame_counter > 1
    /\ Failed(set_sampling_period(State, 1, 0))
    /\ Failed(set_root_span_name(State, 1, "custom"))

(***************************************************************************)
(* Update lists.  A FrameUpdate is an opaque value; the stage appends it   *)
(* to the payload's list (PipelineStage::add_frame_update and              *)
(* add_batched_frame_update, pipeline2/stage.rs) and empties the list      *)
(* (clear_updates).                                                        *)
(***************************************************************************)
\* Number of updates the callers add.
MaxUpdates == 2

UpdateArgs == {"u1", "u2"}

stage_add_frame_update(payload, frame_id, update) ==
    IF frame_id \notin DOMAIN payload THEN [ok |-> FALSE, payload |-> payload]
    ELSE IF payload[frame_id].kind /= "Frame" THEN [ok |-> FALSE, payload |-> payload]
    ELSE [ok |-> TRUE,
          payload |-> [payload EXCEPT ![frame_id].updates = Append(@, update)]]

stage_add_batched_frame_update(payload, batch_id, frame_id, update) ==
    IF batch_id \notin DOMAIN payload THEN [ok |-> FALSE, payload |-> payload]
    ELSE IF payload[batch_id].kind /= "Batch" THEN [ok |-> FALSE, payload |-> payload]
    ELSE IF frame_id \notin DOMAIN payload[batch_id].batch
         THEN [ok |-> FALSE, payload |-> payload]
    ELSE [ok |-> TRUE,
          payload |-> [payload EXCEPT ![batch_id].updates = Append(@, <<frame_id, update>>)]]

add_frame_update(s, t, frame_id, update) ==
    LET cur_stage == get_stage_for_id(s, frame_id) IN
    IF cur_stage = None THEN Return(s, t, Err("Object location not found"))
    ELSE LET r == stage_add_frame_update(s.stages[cur_stage], frame_id, update)
         IN IF ~r.ok THEN Return(s, t, Err("Stage rejected the update"))
            ELSE Return([s EXCEPT !.stages[cur_stage] = r.payload], t, Ok(<<>>))

add_batched_frame_update(s, t, batch_id, frame_id, update) ==
    LET stage == get_stage_for_id(s, batch_id) IN
    IF stage = None THEN Return(s, t, Err("Object location not found"))
    ELSE IF stage \notin StageIdx THEN Return(s, t, Err("Stage not found"))
    ELSE LET r == stage_add_batched_frame_update(s.stages[stage], batch_id, frame_id, update)
         IN IF ~r.ok THEN Return(s, t, Err("Stage rejected the update"))
            ELSE Return([s EXCEPT !.stages[stage] = r.payload], t, Ok(<<>>))

\* PipelineStage::clear_updates: the update list of the payload, frame or
\* batch, is emptied; an ID the stage does not hold is an error.
stage_clear_updates(payload, id) ==
    IF id \notin DOMAIN payload THEN [ok |-> FALSE, payload |-> payload]
    ELSE [ok |-> TRUE, payload |-> [payload EXCEPT ![id].updates = <<>>]]

\* lines 437-444.
clear_updates(s, t, id) ==
    LET stage == get_stage_for_id(s, id) IN
    IF stage = None THEN Return(s, t, Err("Object location not found"))
    ELSE IF stage \notin StageIdx THEN Return(s, t, Err("Stage not found"))
    ELSE LET r == stage_clear_updates(s.stages[stage], id)
         IN IF ~r.ok THEN Return(s, t, Err("Stage rejected the call"))
            ELSE Return([s EXCEPT !.stages[stage] = r.payload], t, Ok(<<>>))

(***************************************************************************)
(* C9.  delete(id) of a live independent frame succeeds and returns the    *)
(* single entry id -> its root span; the frame's stage has one payload     *)
(* less, the ID is in neither the payload-location map nor the root-span   *)
(* map, and every later operation on the ID (get, move, update, delete)    *)
(* fails as not found.                                                     *)
(***************************************************************************)
NotFoundErrors == {"Object location not found"}

\* Every operation on `id` fails in state s because the ID has no location.
AllNotFound(s, id) ==
    /\ get_independent_frame(s, id).err \in NotFoundErrors
    /\ get_batch(s, id).err \in NotFoundErrors
    /\ \A m \in IdArgs : get_batched_frame(s, id, m).err \in NotFoundErrors
    /\ Failed(delete(s, 1, id)) /\ delete(s, 1, id).th[1].ret.err \in NotFoundErrors
    /\ \A dest \in NameArgs :
          /\ Failed(move_as_is(s, 1, dest, <<id>>))
          /\ move_as_is(s, 1, dest, <<id>>).th[1].ret.err \in NotFoundErrors
          /\ Failed(move_and_pack_frames(s, 1, dest, <<id>>))
          /\ move_and_pack_frames(s, 1, dest, <<id>>).th[1].ret.err \in NotFoundErrors
          /\ Failed(move_and_unpack_batch(s, 1, dest, id))
          /\ move_and_unpack_batch(s, 1, dest, id).th[1].ret.err \in NotFoundErrors
    /\ \A update \in UpdateArgs :
          /\ Failed(add_frame_update(s, 1, id, update))
          /\ add_frame_update(s, 1, id, update).th[1].ret.err \in NotFoundErrors
          /\ \A m \in IdArgs :
                /\ Failed(add_batched_frame_update(s, 1, id, m, update))
                /\ add_batched_frame_update(s, 1, id, m, update).th[1].ret.err
                      \in NotFoundErrors
    /\ Failed(clear_updates(s, 1, id))
    /\ clear_updates(s, 1, id).th[1].ret.err \in NotFoundErrors

C9_DeleteFramePost ==
    AllIdle =>
        /\ \A id \in IdArgs :
              IsIndependentFrame(State, id) =>
                  LET n == delete(State, 1, id)
                      src == frame_locations[id]
                  IN /\ Succeeded(n)
                     /\ DOMAIN n.th[1].ret.val = {id}
                     /\ n.th[1].ret.val[id] = root_spans[id]
                     /\ stage_len(n.stages[src]) = stage_len(stages[src]) - 1
                     /\ id \notin DOMAIN n.stages[src]
                     /\ id \notin DOMAIN n.frame_locations
                     /\ id \notin DOMAIN n.root_spans
                     /\ n.deleted = deleted \cup {id}
        /\ \A id \in deleted :
              /\ id \notin DOMAIN frame_locations
              /\ id \notin DOMAIN root_spans
              /\ AllNotFound(State, id)

\* A frame has been deleted while another payload lives on, and later
\* operations have run.
C9_Witness ==
    /\ AllIdle
    /\ deleted /= {}
    /\ DOMAIN frame_locations /= {}
    /\ \E id \in deleted : id < id_counter

\* The number of updates the stages hold.
RECURSIVE SumOver(_, _)
SumOver(f, S) ==
    IF S = {} THEN 0
    ELSE LET x == CHOOSE y \in S : TRUE IN f[x] + SumOver(f, S \ {x})

StoredUpdates ==
    SumOver([i \in StageIdx |->
                SumOver([id \in DOMAIN stages[i] |-> Len(stages[i][id].updates)],
                        DOMAIN stages[i])],
            StageIdx)

AddFrameUpdate ==
    /\ Idle(1) /\ StoredUpdates < MaxUpdates
    /\ \E frame_id \in IdArgs, update \in UpdateArgs :
           Install(Forget(add_frame_update(State, 1, frame_id, update)))

AddBatchedFrameUpdate ==
    /\ Idle(1) /\ StoredUpdates < MaxUpdates
    /\ \E batch_id \in IdArgs, frame_id \in IdArgs, update \in UpdateArgs :
           Install(Forget(add_batched_frame_update(State, 1, batch_id, frame_id, update)))

ClearUpdates ==
    /\ Idle(1)
    /\ \E id \in IdArgs : Install(Forget(clear_updates(State, 1, id)))

(***************************************************************************)
(* Update specification: one caller that admits frames, records updates    *)
(* against frames and batch members, clears them, and packs and unpacks.   *)
(***************************************************************************)
UpdateNext ==
    \/ AddFrame
    \/ AddFrameUpdate
    \/ AddBatchedFrameUpdate
    \/ ClearUpdates
    \/ MoveAndPackFrames
    \/ MoveAndUnpackBatch

UpdateSpec == Init /\ [][UpdateNext]_vars

(***************************************************************************)
(* C14.  Updates survive packing and unpacking.  A successful              *)
(* move_and_pack_frames puts the pending updates of every member into the  *)
(* batch's update list, tagged with that member's ID and in the member's   *)
(* order, and nothing else; a successful move_and_unpack_batch gives every *)
(* member the batch-level updates tagged with it, in order; and unpacking  *)
(* a batch and packing the returned frames again (in any order of the      *)
(* returned IDs) gives a batch with the same members and, for each member, *)
(* the same updates in the same order.                                     *)
(***************************************************************************)
\* The updates of a batch-level list that are tagged with member m, in order.
TaggedWith(q, m) ==
    LET mine == SelectSeq(q, LAMBDA e : e[1] = m)
    IN [k \in 1..Len(mine) |-> mine[k][2]]

\* The batch payload with ID b, where the location map says it is.
BatchAt(s, b) == s.stages[s.frame_locations[b]][b]

C14_PackKeepsUpdates ==
    \A dest \in NameArgs, ids \in IdLists :
        LET n == move_and_pack_frames(State, 1, dest, ids)
            b == n.th[1].ret.val
            src == frame_locations[ids[1]]
        IN Succeeded(n) =>
              /\ IsLocatedBatch(n, b)
              /\ \A m \in Range(ids) :
                    TaggedWith(BatchAt(n, b).updates, m) = stages[src][m].updates
              /\ \A k \in 1..Len(BatchAt(n, b).updates) :
                    BatchAt(n, b).updates[k][1] \in Range(ids)

C14_UnpackRoutesUpdates ==
    \A dest \in NameArgs, id \in IdArgs :
        LET n == move_and_unpack_batch(State, 1, dest, id)
            dst == find_stage(dest, frame_locations[id])
        IN Succeeded(n) =>
              \A m \in DOMAIN BatchAt(State, id).batch :
                  /\ IsIndependentFrame(n, m)
                  /\ n.stages[dst][m].updates = TaggedWith(BatchAt(State, id).updates, m)

C14_RoundTrip ==
    \A dest \in NameArgs, id \in IdArgs :
        LET n1 == move_and_unpack_batch(State, 1, dest, id)
            returned == n1.th[1].ret.val
        IN Succeeded(n1) =>
              \A dest2 \in NameArgs :
              \A ids \in {q \in IdLists : Range(q) = returned /\ Len(q) = Cardinality(returned)} :
                  LET n2 == move_and_pack_frames(Forget(n1), 1, dest2, ids)
                      b == n2.th[1].ret.val
                  IN Succeeded(n2) =>
                        /\ DOMAIN BatchAt(n2, b).batch = DOMAIN BatchAt(State, id).batch
                        /\ BatchAt(n2, b).batch = BatchAt(State, id).batch
                        /\ Len(BatchAt(n2, b).updates) = Len(BatchAt(State, id).updates)
                        /\ \A m \in DOMAIN BatchAt(State, id).batch :
                              TaggedWith(BatchAt(n2, b).updates, m)
                                  = TaggedWith(BatchAt(State, id).updates, m)

C14_UpdatesSurvive ==
    /\ C14_PackKeepsUpdates
    /\ C14_UnpackRoutesUpdates
    /\ C14_RoundTrip

\* A located batch of two members that holds updates for both, made by
\* packing frames that had updates or by batch-level updates, and that can
\* be unpacked and packed again.
C14_Witness ==
    \E b \in DOMAIN frame_locations :
        /\ IsLocatedBatch(State, b)
        /\ Cardinality(DOMAIN BatchAt(State, b).batch) = 2
        /\ \A m \in DOMAIN BatchAt(State, b).batch :
              TaggedWith(BatchAt(State, b).updates, m) /= <<>>
        /\ LET n1 == move_and_unpack_batch(State, 1, "output", b)
           IN /\ Succeeded(n1)
              /\ \E ids \in IdLists :
                    /\ Range(ids) = n1.th[1].ret.val /\ Len(ids) = 2
                    /\ Succeeded(move_and_pack_frames(Forget(n1), 1, "repack", ids))

(***************************************************************************)
(* Specification of the valid operations: one caller, and only the calls   *)
(* that return Ok take place.                                              *)
(***************************************************************************)
ValidStep(n) == Succeeded(n) /\ Install(Forget(n))

ValidAddFrame ==
    /\ Idle(1) /\ id_counter < MaxId
    /\ \E stage_name \in NameArgs : ValidStep(add_frame(State, 1, stage_name, NextFrame))

ValidAddFrameWithTelemetry ==
    /\ Idle(1) /\ id_counter < MaxId
    /\ \E stage_name \in NameArgs, parent_valid \in BOOLEAN :
           ValidStep(add_frame_with_telemetry(State, 1, stage_name, NextFrame, parent_valid))

ValidDelete ==
    /\ Idle(1)
    /\ \E id \in IdArgs : ValidStep(delete(State, 1, id))

ValidMoveAsIs ==
    /\ Idle(1)
    /\ \E dest \in NameArgs, ids \in IdLists : ValidStep(move_as_is(State, 1, dest, ids))

ValidMoveAndPackFrames ==
    /\ Idle(1) /\ id_counter < MaxId
    /\ \E dest \in NameArgs, ids \in IdLists :
           ValidStep(move_and_pack_frames(State, 1, dest, ids))

ValidMoveAndUnpackBatch ==
    /\ Idle(1)
    /\ \E dest \in NameArgs, id \in IdArgs :
           ValidStep(move_and_unpack_batch(State, 1, dest, id))

ValidNext ==
    \/ ValidAddFrame
    \/ ValidAddFrameWithTelemetry
    \/ ValidDelete
    \/ ValidMoveAsIs
    \/ ValidMoveAndPackFrames
    \/ ValidMoveAndUnpackBatch

ValidSpec == Init /\ [][ValidNext]_vars

(***************************************************************************)
(* C15.  As stated: after every sequence of successful operations the key  *)
(* set of the payload-location map equals the union over the stages of the *)
(* payload IDs stored in the stage.  The statement fails after a pack: the *)
(* members of a batch keep their entries in the map (rewritten to the      *)
(* batch's stage, which is what makes get_batched_frame work) but are no   *)
(* longer payload IDs of any stage.                                        *)
(***************************************************************************)
PayloadIds(s) == UNION {DOMAIN s.stages[i] : i \in StageIdx}

BatchMemberIds(payload) ==
    UNION {DOMAIN payload[b].batch : b \in {x \in DOMAIN payload : payload[x].kind = "Batch"}}

MemberIds(s) == UNION {BatchMemberIds(s.stages[i]) : i \in StageIdx}

C15_KeysArePayloadIds == DOMAIN frame_locations = PayloadIds(State)

(***************************************************************************)
(* C15, amended.  After every sequence of successful operations the key    *)
(* set of the payload-location map equals the payload IDs stored in the    *)
(* stages together with the member IDs of the stored batches, and no       *)
(* member ID is a payload ID.                                              *)
(***************************************************************************)
C15_KeysArePayloadAndMemberIds ==
    /\ DOMAIN frame_locations = PayloadIds(State) \cup MemberIds(State)
    /\ PayloadIds(State) \cap MemberIds(State) = {}

\* A batch with its members is stored, and an independent frame next to it.
C15_Witness ==
    /\ MemberIds(State) /= {}
    /\ \E id \in DOMAIN frame_locations : IsIndependentFrame(State, id)
    /\ \E b \in DOMAIN frame_locations : IsLocatedBatch(State, b)

(***************************************************************************)
(* C16.  In every reachable state, whatever the threads are doing, no ID   *)
(* is stored in more than one stage; and whenever no operation is in       *)
(* progress every live ID (returned by an ingress or a pack, and neither   *)
(* deleted nor unpacked since) is stored in exactly one stage.  A frame is *)
(* stored in a stage as a payload of the stage or as a member of a batch   *)
(* of the stage.                                                           *)
(***************************************************************************)
StagesHolding(s, id) ==
    {i \in StageIdx : id \in DOMAIN s.stages[i] \/ id \in BatchMemberIds(s.stages[i])}

C16_ExactlyOneStage ==
    /\ \A id \in 1..id_counter : Cardinality(StagesHolding(State, id)) <= 1
    /\ \A i \in StageIdx : DOMAIN stages[i] \cap BatchMemberIds(stages[i]) = {}
    /\ AllIdle => \A id \in live : Cardinality(StagesHolding(State, id)) = 1

\* Nothing is in progress, and a frame lives as a member of a live batch
\* that is held by the second Batch stage.
C16_Witness ==
    /\ AllIdle
    /\ \E b \in live :
          /\ IsLocatedBatch(State, b)
          /\ frame_locations[b] = 2
          /\ BatchAt(State, b).batch /= EmptyMap
          /\ DOMAIN BatchAt(State, b).batch \subseteq live

(***************************************************************************)
(* C17.  After any sequence of operations every stage of kind Frame        *)
(* (independent frames) holds only Frame payloads and every stage of kind  *)
(* Batch holds only Batch payloads.                                        *)
(***************************************************************************)
C17_StageKinds ==
    \A i \in StageIdx : \A id \in DOMAIN stages[i] : stages[i][id].kind = stage_type_of(i)

\* A Frame stage holds a frame while a Batch stage holds a batch, after
\* frames have been admitted, packed and moved.
C17_Witness ==
    /\ \E i \in StageIdx : stage_type_of(i) = "Frame" /\ stages[i] /= EmptyMap
    /\ \E i \in StageIdx : i > 1 /\ stage_type_of(i) = "Batch" /\ stages[i] /= EmptyMap
    /\ id_counter = MaxId

(***************************************************************************)
(* The key-value store (webserver/kvs.rs over the moka cache built in      *)
(* WsData::new).  Strings are sequences of characters.  A cache entry      *)
(* holds the value (ttl, attribute), the time it was created and the       *)
(* duration RecordExpiration::expire_after_create gave for it.  An expired *)
(* entry stays in the cache until the cache's housekeeping removes it; no  *)
(* read returns it.  Options are <<>> (None) and <<v>> (Some).             *)
(***************************************************************************)
\* Largest TTL (ms) a caller passes.
MaxTtl == 2
\* The clock runs from 0 to MaxTime.
MaxTime == 2
\* Longest attribute list passed to set_attributes.
MaxAttrs == 2
\* Number of set_attributes and del_attributes calls the callers of the
\* store make.
MaxKvsCalls == 2

\* The keys (namespace, name) the callers use.
KvsKeys == {<<<<"a", "b">>, <<"x">>>>, <<<<"a", "b">>, <<"x", "y">>>>, <<<<"b">>, <<"x">>>>}

KvsValues == {1, 2}

Attribute(ns, name, value) == [namespace |-> ns, name |-> name, value |-> value]

Attributes == {Attribute(k[1], k[2], v) : k \in KvsKeys, v \in KvsValues}

AttributeLists == SeqsUpTo(Attributes, MaxAttrs)

TtlArgs == {<<>>} \cup {<<n>> : n \in 0..MaxTtl}

\* The glob patterns a caller passes: absent, or characters, "?" and "*".
PatternArgs ==
    {<<>>, <<<<"*">>>>, <<<<"a", "*">>>>, <<<<"?">>>>, <<<<"b">>>>, <<<<"x", "?">>>>}

\* expire_after_create replaced by one that gives no duration for any value.
expire_after_create_none(value) == <<>>

\* RecordExpiration::expire_after_create: value.0.map(Duration::from_millis).
expire_after_create(value) == IF value[1] = <<>> THEN <<>> ELSE <<value[1][1]>>

\* The cache's expiry test: the entry's expiration time is not after `time`.
expired(e, time) == e.duration /= <<>> /\ e.created + e.duration[1] <= time

cache_entry(value, time) ==
    [value |-> value, created |-> time, duration |-> expire_after_create(value)]

\* Cache::get
cache_get(c, time, key) ==
    IF key \in DOMAIN c /\ ~expired(c[key], time) THEN <<c[key].value>> ELSE <<>>

\* Cache::get_with: the value of a present entry, otherwise `init` is inserted.
cache_get_with(c, time, key, init) ==
    IF cache_get(c, time, key) /= <<>> THEN c
    ELSE MapInsert(c, key, cache_entry(init, time))

\* Cache::iter: the unexpired entries.
cache_iter(c, time) == {key \in DOMAIN c : ~expired(c[key], time)}

\* Cache::remove
cache_remove(c, key) == MapRemove(c, key)

(***************************************************************************)
(* globset.  Glob::new parses the pattern into tokens, and the matcher     *)
(* tests the whole string against them (the regex the tokens are turned    *)
(* into, anchored at both ends, with the default options: a backslash      *)
(* escapes, "/" is matched by the wildcards, case matters).                *)
(***************************************************************************)
\* The printable characters in the order of their codes, 32 to 126, for the
\* ranges of a class (the grave accent, code 96, cannot be written here).
Ascii ==
    <<" ", "!", "\"", "#", "$", "%", "&", "'", "(", ")", "*", "+", ",",
      "-", ".", "/", "0", "1", "2", "3", "4", "5", "6", "7", "8", "9", ":",
      ";", "<", "=", ">", "?", "@", "A", "B", "C", "D", "E", "F", "G", "H",
      "I", "J", "K", "L", "M", "N", "O", "P", "Q", "R", "S", "T", "U", "V",
      "W", "X", "Y", "Z", "[", "\\", "]", "^", "_", "", "a", "b", "c",
      "d", "e", "f", "g", "h", "i", "j", "k", "l", "m", "n", "o", "p", "q",
      "r", "s", "t", "u", "v", "w", "x", "y", "z", "{", "|", "}", "~">>

CharCode(c) ==
    IF \E i \in 1..Len(Ascii) : Ascii[i] = c
    THEN 31 + (CHOOSE i \in 1..Len(Ascii) : Ascii[i] = c)
    ELSE 0

is_separator(c) == c = "/"

Token(t) == [t |-> t, c |-> "", negated |-> FALSE, ranges |-> <<>>, alts |-> <<>>]

Literal(c) == [Token("Literal") EXCEPT !.c = c]

\* Parser::push_token: the token goes to the end of the last branch.
push_token(branches, tok) == [branches EXCEPT ![Len(branches)] = Append(@, tok)]

\* The loop of Parser::parse_class from the character at `k` on: the ranges
\* of the class and the index after its "]", or the error.
RECURSIVE class_loop(_, _, _, _, _)
class_loop(s, k, first, in_range, ranges) ==
    IF k > Len(s) THEN [err |-> "UnclosedClass", next |-> k, ranges |-> ranges]
    ELSE LET c == s[k]
             n == Len(ranges)
             closed == [ranges EXCEPT ![n] = <<ranges[n][1], c>>]
         IN IF c = "]" /\ first
            THEN class_loop(s, k + 1, FALSE, in_range, Append(ranges, <<"]", "]">>))
            ELSE IF c = "]"
            THEN [err |-> "", next |-> k + 1,
                  ranges |-> IF in_range THEN Append(ranges, <<"-", "-">>) ELSE ranges]
            ELSE IF c = "-" /\ first
            THEN class_loop(s, k + 1, FALSE, in_range, Append(ranges, <<"-", "-">>))
            ELSE IF c = "-" /\ ~in_range
            THEN class_loop(s, k + 1, FALSE, TRUE, ranges)
            ELSE IF in_range
            THEN IF CharCode(c) < CharCode(ranges[n][1])
                 THEN [err |-> "InvalidRange", next |-> k, ranges |-> ranges]
                 ELSE class_loop(s, k + 1, FALSE, FALSE, closed)
            ELSE class_loop(s, k + 1, FALSE, FALSE, Append(ranges, <<c, c>>))

\* Parser::parse_class, `k` being the index after the "[".
parse_class(s, k) ==
    LET negated == k <= Len(s) /\ s[k] \in {"!", "^"}
        r == class_loop(s, IF negated THEN k + 1 ELSE k, TRUE, FALSE, <<>>)
    IN [err |-> r.err, next |-> r.next,
        tok |-> [Token("Class") EXCEPT !.negated = negated, !.ranges = r.ranges]]

\* Parser::parse_star, `k` being the index of the "*": the branches and the
\* index of the next character.  "**" is one of the recursive tokens
\* where it stands for whole path components, and two "*" elsewhere.
parse_star(s, k, branches) ==
    LET peek(i) == IF i <= Len(s) THEN s[i] ELSE ""
        prev == IF k > 1 THEN s[k - 1] ELSE ""
        last == branches[Len(branches)]
        two == push_token(push_token(branches, Token("ZeroOrMore")), Token("ZeroOrMore"))
        popped == [branches EXCEPT ![Len(branches)] = SubSeq(last, 1, Len(last) - 1)]
        top == last[Len(last)]
        after == peek(k + 2)
        is_suffix == after = "" \/ (after \in {",", "}"} /\ Len(branches) >= 2)
        bumped == after = "" \/ ~(after \in {",", "}"} /\ Len(branches) >= 2)
    IN IF peek(k + 1) /= "*"
       THEN [branches |-> push_token(branches, Token("ZeroOrMore")), next |-> k + 1]
       ELSE IF last = <<>>
       THEN IF after /= "" /\ ~is_separator(after)
            THEN [branches |-> two, next |-> k + 2]
            ELSE [branches |-> push_token(branches, Token("RecursivePrefix")),
                  next |-> k + 3]
       ELSE IF ~is_separator(prev) /\ (Len(branches) <= 1 \/ prev \notin {",", "{"})
       THEN [branches |-> two, next |-> k + 2]
       ELSE IF ~is_suffix /\ ~is_separator(after)
       THEN [branches |-> two, next |-> k + 2]
       ELSE [branches |->
                 IF top.t \in {"RecursivePrefix", "RecursiveSuffix"} THEN branches
                 ELSE IF is_suffix THEN push_token(popped, Token("RecursiveSuffix"))
                 ELSE push_token(popped, Token("RecursiveZeroOrMore")),
             next |-> IF bumped THEN k + 3 ELSE k + 2]

\* Parser::parse from the character at `k` on.  `branches` are the branches
\* being parsed, the pattern itself the first; `alternates_stack` holds, for
\* every "{" that is open, the number of branches there were before it.
RECURSIVE parse(_, _, _, _)
parse(s, k, branches, alternates_stack) ==
    IF k > Len(s)
    THEN (IF Len(branches) > 1 THEN Err("UnclosedAlternates") ELSE Ok(branches[1]))
    ELSE LET c == s[k] IN
         CASE c = "?" -> parse(s, k + 1, push_token(branches, Token("Any")), alternates_stack)
           [] c = "*" -> LET r == parse_star(s, k, branches)
                         IN parse(s, r.next, r.branches, alternates_stack)
           [] c = "[" -> LET r == parse_class(s, k + 1)
                         IN IF r.err /= "" THEN Err(r.err)
                            ELSE parse(s, r.next, push_token(branches, r.tok),
                                       alternates_stack)
           [] c = "{" -> parse(s, k + 1, Append(branches, <<>>),
                               Append(alternates_stack, Len(branches)))
           [] c = "}" ->
                IF alternates_stack = <<>> THEN Err("UnopenedAlternates")
                ELSE LET start == alternates_stack[Len(alternates_stack)]
                         tok == [Token("Alternates") EXCEPT
                                    !.alts = SubSeq(branches, start + 1, Len(branches))]
                     IN parse(s, k + 1, push_token(SubSeq(branches, 1, start), tok),
                              SubSeq(alternates_stack, 1, Len(alternates_stack) - 1))
           [] c = "," ->
                IF alternates_stack = <<>>
                THEN parse(s, k + 1, push_token(branches, Literal(",")), alternates_stack)
                ELSE parse(s, k + 1, Append(branches, <<>>), alternates_stack)
           [] c = "\\" ->
                IF k = Len(s) THEN Err("DanglingEscape")
                ELSE parse(s, k + 2, push_token(branches, Literal(s[k + 1])),
                           alternates_stack)
           [] OTHER -> parse(s, k + 1, push_token(branches, Literal(c)), alternates_stack)

\* Glob::new: the tokens of the pattern, or the error.
glob_new(s) == parse(s, 1, <<<<>>>>, <<>>)

\* A character is in a class when one of the ranges holds it, or none does
\* for a negated class.
in_class(tok, c) ==
    tok.negated /= (\E i \in 1..Len(tok.ranges) :
                       /\ CharCode(tok.ranges[i][1]) <= CharCode(c)
                       /\ CharCode(c) <= CharCode(tok.ranges[i][2]))

\* Tokens::tokens_to_regex writes no text for the tokens: every token but
\* an alternation writes some, and an alternation writes the branches that
\* are not empty texts, and nothing when there is none.
RECURSIVE regex_is_empty(_)
regex_is_empty(tokens) ==
    \A i \in 1..Len(tokens) :
        /\ tokens[i].t = "Alternates"
        /\ \A b \in 1..Len(tokens[i].alts) : regex_is_empty(tokens[i].alts[b])

\* The tokens match the whole string: the string is cut into consecutive
\* pieces, one for each token.  An alternation takes the piece one of its
\* branches matches; the branches with an empty text are left out, and an
\* alternation with no other branch matches the empty piece.
RECURSIVE tokens_match(_, _)
tokens_match(tokens, str) ==
    IF tokens = <<>> THEN str = <<>>
    ELSE \E k \in 0..Len(str) :
            LET tok == Head(tokens)
                piece == SubSeq(str, 1, k)
                branches == {i \in 1..Len(tok.alts) : ~regex_is_empty(tok.alts[i])}
            IN /\ CASE tok.t = "Literal" -> piece = <<tok.c>>
                    [] tok.t = "Any" -> k = 1
                    [] tok.t = "ZeroOrMore" -> TRUE
                    [] tok.t = "Class" -> k = 1 /\ in_class(tok, piece[1])
                    [] tok.t = "RecursivePrefix" -> k = 0 \/ piece[k] = "/"
                    [] tok.t = "RecursiveSuffix" -> k > 0 /\ piece[1] = "/"
                    [] tok.t = "RecursiveZeroOrMore" ->
                           k > 0 /\ piece[1] = "/" /\ piece[k] = "/"
                    [] tok.t = "Alternates" ->
                           IF branches = {} THEN k = 0
                           ELSE \E i \in branches : tokens_match(tok.alts[i], piece)
               /\ tokens_match(Tail(tokens), SubSeq(str, k + 1, Len(str)))

\* Tokens::to_regex_with: a glob that is the one token RecursivePrefix
\* becomes the regex ^.*$ and matches every string.
regex_match(tokens, str) ==
    IF Len(tokens) = 1 /\ tokens[1].t = "RecursivePrefix" THEN TRUE
    ELSE tokens_match(tokens, str)

\* Glob::new(glob).unwrap().compile_matcher().is_match(str), for a pattern
\* that Glob::new accepts.
is_match(glob, str) == regex_match(glob_new(glob).val, str)

\* .map(Glob::new).unwrap_or(Glob::new("*"))
glob_of(pattern) == IF pattern = <<>> THEN <<"*">> ELSE pattern[1]

\* set_attributes, lines 8-13: the get_with of one attribute of the list.
set_attribute(c, time, attr, ttl) ==
    cache_get_with(c, time, <<attr.namespace, attr.name>>, <<ttl, attr>>)

\* set_attributes as a caller sees it that runs alone while the clock
\* stands at `time`.
RECURSIVE set_attributes(_, _, _, _)
set_attributes(c, time, attributes, ttl) ==
    IF attributes = <<>> THEN c
    ELSE set_attributes(set_attribute(c, time, Head(attributes), ttl),
                        time, Tail(attributes), ttl)

\* The Vec a search returns, as the set of its elements.
search_attributes(c, time, ns, name) ==
    {c[key].value[2] : key \in {k \in cache_iter(c, time) :
                                   is_match(glob_of(ns), k[1]) /\ is_match(glob_of(name), k[2])}}

\* search_keys with the test of the name pattern left out.
search_keys_ns_only(c, time, ns, name) ==
    {key \in cache_iter(c, time) : is_match(glob_of(ns), key[1])}

search_keys(c, time, ns, name) ==
    {key \in cache_iter(c, time) :
        is_match(glob_of(ns), key[1]) /\ is_match(glob_of(name), key[2])}

\* del_attributes with the test of the name pattern left out.
del_attributes_ns_only(c, time, ns, name) ==
    MapRemoveAll(c, search_keys_ns_only(c, time, ns, name))

\* del_attributes as a caller sees it that runs alone: the scan of lines
\* 85-91 and the removal of every key it collected.
del_attributes(c, time, ns, name) == MapRemoveAll(c, search_keys(c, time, ns, name))

get_attribute(c, time, ns, name) ==
    LET v == cache_get(c, time, <<ns, name>>)
    IN IF v = <<>> THEN <<>> ELSE <<v[1][2]>>

\* del_attribute that leaves the entry in the cache.
del_attribute_kept(c, time, ns, name) == c

\* The cache after del_attribute.
del_attribute(c, time, ns, name) == cache_remove(c, <<ns, name>>)

\* Cache::remove returns the value of the entry it took out of the cache,
\* also when the entry had expired and was still stored.
cache_remove_value(c, key) == IF key \in DOMAIN c THEN <<c[key].value>> ELSE <<>>

\* What del_attribute returns: .remove(..).await.map(|(_, attr)| attr)
del_attribute_value(c, time, ns, name) ==
    LET v == cache_remove_value(c, <<ns, name>>)
    IN IF v = <<>> THEN <<>> ELSE <<v[1][2]>>

\* Patterns that globset rejects: a character class or an alternation that
\* is never closed, and a "}" that closes nothing.
MalformedPatternArgs == {<<<<"[">>>>, <<<<"a", "[">>>>, <<<<"{", "a">>>>, <<<<"}">>>>}

AllPatternArgs == PatternArgs \cup MalformedPatternArgs

\* .map(|s| Glob::new(s.as_str())).unwrap_or(Glob::new("*")).unwrap() for
\* both patterns: unwrap panics when Glob::new returned an error.
compile_panics(ns, name) ==
    ~glob_new(glob_of(ns)).ok \/ ~glob_new(glob_of(name)).ok

\* A call of one of the three scanning functions: whether it panicked, what
\* it returned, and the cache it left.
search_attributes_call(c, time, ns, name) ==
    IF compile_panics(ns, name) THEN [panic |-> TRUE, val |-> None, kvs |-> c]
    ELSE [panic |-> FALSE, val |-> search_attributes(c, time, ns, name), kvs |-> c]

search_keys_call(c, time, ns, name) ==
    IF compile_panics(ns, name) THEN [panic |-> TRUE, val |-> None, kvs |-> c]
    ELSE [panic |-> FALSE, val |-> search_keys(c, time, ns, name), kvs |-> c]

del_attributes_call(c, time, ns, name) ==
    IF compile_panics(ns, name) THEN [panic |-> TRUE, val |-> None, kvs |-> c]
    ELSE [panic |-> FALSE, val |-> None, kvs |-> del_attributes(c, time, ns, name)]

pipeline_state ==
    <<id_counter, frame_counter, root_spans, root_spans_lock, stages,
      frame_locations, sampling_period, root_span_name, open_spans,
      th, issued, admitted, deleted, live>>

pipeline_vars == <<pipeline_state, calls>>

DelAttribute ==
    /\ \E key \in KvsKeys : kvs' = del_attribute(kvs, now, key[1], key[2])
    /\ UNCHANGED <<now, kvs_th, pipeline_vars, ws_vars>>

\* The cache's housekeeping removes expired entries.
Housekeeping ==
    /\ kvs' = MapRemoveAll(kvs, {key \in DOMAIN kvs : expired(kvs[key], now)})
    /\ UNCHANGED <<now, kvs_th, pipeline_vars, ws_vars>>

\* A millisecond passes.
Tick ==
    /\ now < MaxTime
    /\ now' = now + 1
    /\ UNCHANGED <<kvs, kvs_th, pipeline_vars, ws_vars>>

(***************************************************************************)
(* set_attributes and del_attributes are futures that await one cache      *)
(* operation after the other; between two of them the clock ticks, the     *)
(* cache does its housekeeping and the other callers go on.  A caller in a *)
(* call holds what is left of it: the attributes still to be stored with   *)
(* their TTL, or the collected keys still to be removed.                   *)
(***************************************************************************)
KvsIdle == [pc |-> "idle", attributes |-> <<>>, ttl |-> <<>>, keys |-> {}]

\* A caller enters set_attributes; lines 7-14 with the first attribute.
SetAttributesCall(t) ==
    /\ kvs_th[t].pc = "idle" /\ calls < MaxKvsCalls
    /\ calls' = calls + 1
    /\ \E attributes \in AttributeLists, ttl \in TtlArgs :
          IF attributes = <<>> THEN UNCHANGED <<kvs, kvs_th>>
          ELSE /\ kvs' = set_attribute(kvs, now, Head(attributes), ttl)
               /\ kvs_th' = [kvs_th EXCEPT ![t] =
                                 IF Tail(attributes) = <<>> THEN KvsIdle
                                 ELSE [KvsIdle EXCEPT !.pc = "set",
                                                      !.attributes = Tail(attributes),
                                                      !.ttl = ttl]]
    /\ UNCHANGED <<now, pipeline_state, ws_vars>>

\* The next turn of the loop of lines 7-14.
SetAttributesStep(t) ==
    /\ kvs_th[t].pc = "set"
    /\ kvs' = set_attribute(kvs, now, Head(kvs_th[t].attributes), kvs_th[t].ttl)
    /\ kvs_th' = [kvs_th EXCEPT ![t] =
                      IF Tail(@.attributes) = <<>> THEN KvsIdle
                      ELSE [@ EXCEPT !.attributes = Tail(@)]]
    /\ UNCHANGED <<now, pipeline_vars, ws_vars>>

\* A caller enters del_attributes: the patterns are compiled, the call
\* panicking on a malformed one, and lines 85-91 collect the keys.
DelAttributesCall(t) ==
    /\ kvs_th[t].pc = "idle" /\ calls < MaxKvsCalls
    /\ calls' = calls + 1
    /\ \E ns \in AllPatternArgs, name \in AllPatternArgs :
          LET keys == IF compile_panics(ns, name) THEN {}
                      ELSE search_keys(kvs, now, ns, name)
          IN kvs_th' = [kvs_th EXCEPT ![t] =
                           IF keys = {} THEN KvsIdle
                           ELSE [KvsIdle EXCEPT !.pc = "del", !.keys = keys]]
    /\ UNCHANGED <<kvs, now, pipeline_state, ws_vars>>

\* Lines 92-94: the next of the collected keys is removed, whatever is
\* stored under it by now.  The keys come in the order in which the cache
\* was iterated, which is any order.
DelAttributesStep(t) ==
    /\ kvs_th[t].pc = "del"
    /\ \E key \in kvs_th[t].keys :
          /\ kvs' = cache_remove(kvs, key)
          /\ kvs_th' = [kvs_th EXCEPT ![t] =
                            IF @.keys = {key} THEN KvsIdle
                            ELSE [@ EXCEPT !.keys = @ \ {key}]]
    /\ UNCHANGED <<now, pipeline_vars, ws_vars>>

\* One caller makes set_attributes and del_attributes calls, one cache
\* operation per step, while entries are deleted singly, expire and are
\* cleaned up.
KvsNext ==
    \/ SetAttributesCall(1)
    \/ SetAttributesStep(1)
    \/ DelAttributesCall(1)
    \/ DelAttributesStep(1)
    \/ DelAttribute
    \/ Housekeeping
    \/ Tick

KvsSpec == Init /\ [][KvsNext]_vars

\* The calls of several callers among each other.
KvsConcNext ==
    \/ \E t \in Threads : SetAttributesCall(t)
    \/ \E t \in Threads : SetAttributesStep(t)
    \/ \E t \in Threads : DelAttributesCall(t)
    \/ \E t \in Threads : DelAttributesStep(t)
    \/ DelAttribute
    \/ Housekeeping
    \/ Tick

KvsConcSpec == Init /\ [][KvsConcNext]_vars

(***************************************************************************)
(* C18.  After set_attributes(attrs, ttl) has returned, get_attribute      *)
(* (a.namespace, a.name) returns a itself for every attribute a of attrs,  *)
(* also when the key held a different, unexpired attribute before the call *)
(* (set inserts or overwrites).  The read is made at the time of the call, *)
(* with no TTL or a TTL above 0, for lists that name every key once.       *)
(* The code breaks it: set_attributes stores through Cache::get_with,      *)
(* which leaves a present, unexpired entry as it is.                       *)
(***************************************************************************)
DistinctKeys(attributes) ==
    \A i, j \in 1..Len(attributes) :
        i /= j => <<attributes[i].namespace, attributes[i].name>>
                    /= <<attributes[j].namespace, attributes[j].name>>

C18_SetThenGet ==
    \A attributes \in AttributeLists, ttl \in TtlArgs :
        (DistinctKeys(attributes) /\ (ttl = <<>> \/ ttl[1] > 0)) =>
            LET c == set_attributes(kvs, now, attributes, ttl)
            IN \A k \in 1..Len(attributes) :
                  get_attribute(c, now, attributes[k].namespace, attributes[k].name)
                      = <<attributes[k]>>

(***************************************************************************)
(* C19.  An entry created by set_attributes with ttl = Some(n) is returned *)
(* by get_attribute, search_attributes and search_keys at elapsed time dt  *)
(* after its creation exactly when dt < n; an entry created with ttl =     *)
(* None is returned at every later time, as long as it is in the store     *)
(* (deleted entries have left it).                                         *)
(***************************************************************************)
\* What the claim says about the entry of `key`: it is to be returned.
Present(key) ==
    LET ttl == kvs[key].value[1]
        dt == now - kvs[key].created
    IN ttl = <<>> \/ dt < ttl[1]

C19_TtlExpiry ==
    \A key \in DOMAIN kvs :
        LET a == kvs[key].value[2] IN
        /\ a.namespace = key[1] /\ a.name = key[2]
        /\ (get_attribute(kvs, now, key[1], key[2]) = <<a>>) <=> Present(key)
        /\ (get_attribute(kvs, now, key[1], key[2]) = <<>>) <=> ~Present(key)
        /\ (a \in search_attributes(kvs, now, <<>>, <<>>)) <=> Present(key)
        /\ (key \in search_keys(kvs, now, <<>>, <<>>)) <=> Present(key)
        /\ (a \in search_attributes(kvs, now, <<key[1]>>, <<key[2]>>)) <=> Present(key)
        /\ (key \in search_keys(kvs, now, <<key[1]>>, <<key[2]>>)) <=> Present(key)

\* At the same time: an entry with a TTL that has run out and is still in
\* the cache, an entry whose TTL has not run out, and an entry without TTL
\* that is older than every TTL.
C19_Witness ==
    \E k1, k2, k3 \in DOMAIN kvs :
        /\ kvs[k1].value[1] /= <<>> /\ kvs[k1].value[1][1] > 0 /\ ~Present(k1)
        /\ kvs[k2].value[1] /= <<>> /\ Present(k2) /\ now > kvs[k2].created
        /\ kvs[k3].value[1] = <<>> /\ now - kvs[k3].created >= MaxTtl

(***************************************************************************)
(* C20.  search_attributes(ns, name) returns exactly the attributes of the *)
(* unexpired entries whose namespace matches the ns glob and whose name    *)
(* matches the name glob, an absent pattern meaning "*"; search_keys(ns,   *)
(* name) returns exactly the keys of those entries.  Matching is stated    *)
(* here by cuts: the pattern's tokens split the string into consecutive    *)
(* pieces, one character for a character token (equal to it) or for "?",   *)
(* any piece for "*".                                                      *)
(***************************************************************************)
GlobMatches(glob, str) ==
    \E c \in [0..Len(glob) -> 0..Len(str)] :
        /\ c[0] = 0
        /\ c[Len(glob)] = Len(str)
        /\ \A i \in 1..Len(glob) :
              IF glob[i] = "*" THEN c[i] >= c[i - 1]
              ELSE /\ c[i] = c[i - 1] + 1
                   /\ (glob[i] = "?" \/ glob[i] = str[c[i]])

PatternOrStar(pattern) == IF pattern = <<>> THEN <<"*">> ELSE pattern[1]

Selected(ns, name) ==
    {key \in DOMAIN kvs :
        /\ Present(key)
        /\ GlobMatches(PatternOrStar(ns), key[1])
        /\ GlobMatches(PatternOrStar(name), key[2])}

C20_SearchExact ==
    \A ns \in PatternArgs, name \in PatternArgs :
        /\ search_keys(kvs, now, ns, name) = Selected(ns, name)
        /\ search_attributes(kvs, now, ns, name)
              = {kvs[key].value[2] : key \in Selected(ns, name)}

\* Every key is in the cache, one entry has expired, and a pair of patterns
\* selects one of the two unexpired entries.
C20_Witness ==
    /\ DOMAIN kvs = KvsKeys
    /\ \E key \in KvsKeys : ~Present(key)
    /\ Cardinality({key \in KvsKeys : Present(key)}) = 2
    /\ \E ns \in PatternArgs, name \in PatternArgs :
          /\ ns /= <<>> /\ name /= <<>>
          /\ Cardinality(search_keys(kvs, now, ns, name)) = 1

(***************************************************************************)
(* C21.  del_attributes(ns, name) removes every entry whose key matches    *)
(* both globs and no other entry: afterwards search_keys and               *)
(* search_attributes with the same patterns return nothing, every          *)
(* unexpired entry whose key matches has left the store, and every entry   *)
(* whose key does not match is still stored with its value, creation time  *)
(* and expiry unchanged.  No entry is added.                               *)
(***************************************************************************)
KeyMatches(ns, name, key) ==
    /\ GlobMatches(PatternOrStar(ns), key[1])
    /\ GlobMatches(PatternOrStar(name), key[2])

C21_DelAttributesExact ==
    \A ns \in PatternArgs, name \in PatternArgs :
        LET c == del_attributes(kvs, now, ns, name)
        IN /\ search_keys(c, now, ns, name) = {}
           /\ search_attributes(c, now, ns, name) = {}
           /\ DOMAIN c \subseteq DOMAIN kvs
           /\ \A key \in DOMAIN kvs :
                 /\ (KeyMatches(ns, name, key) /\ Present(key)) => key \notin DOMAIN c
                 /\ ~KeyMatches(ns, name, key) => (key \in DOMAIN c /\ c[key] = kvs[key])

\* Every key is stored, one entry has expired, and a pair of patterns
\* matches one of the two unexpired entries but not the other, which has a
\* TTL that is still running.
C21_Witness ==
    /\ DOMAIN kvs = KvsKeys
    /\ \E key \in KvsKeys : ~Present(key)
    /\ \E ns \in PatternArgs, name \in PatternArgs :
          /\ ns /= <<>> /\ name /= <<>>
          /\ \E k1, k2 \in KvsKeys :
                /\ Present(k1) /\ KeyMatches(ns, name, k1)
                /\ Present(k2) /\ ~KeyMatches(ns, name, k2)
                /\ kvs[k2].value[1] /= <<>>
                /\ del_attributes(kvs, now, ns, name) /= kvs

(***************************************************************************)
(* C22.  del_attribute(ns, name) on a stored, unexpired key returns that   *)
(* key's attribute and removes the entry, so that a get_attribute and a    *)
(* second del_attribute on the same key, made right after it, both return  *)
(* nothing, and no other entry changes; on a key that is not stored it     *)
(* returns nothing and changes no entry.                                   *)
(***************************************************************************)
C22_DelAttributeReturns ==
    \A key \in KvsKeys :
        LET c == del_attribute(kvs, now, key[1], key[2])
            r == del_attribute_value(kvs, now, key[1], key[2])
        IN /\ (key \in DOMAIN kvs /\ Present(key)) =>
                 /\ r = <<kvs[key].value[2]>>
                 /\ key \notin DOMAIN c
                 /\ get_attribute(c, now, key[1], key[2]) = <<>>
                 /\ del_attribute_value(c, now, key[1], key[2]) = <<>>
                 /\ \A other \in DOMAIN kvs \ {key} :
                       other \in DOMAIN c /\ c[other] = kvs[other]
           /\ key \notin DOMAIN kvs => (r = <<>> /\ c = kvs)

\* One key is stored with a TTL that is still running, one key is stored
\* and has expired, and one key is not stored.
C22_Witness ==
    \E k1, k2, k3 \in KvsKeys :
        /\ k1 \in DOMAIN kvs /\ Present(k1) /\ kvs[k1].value[1] /= <<>>
        /\ del_attribute_value(kvs, now, k1[1], k1[2]) = <<kvs[k1].value[2]>>
        /\ k2 \in DOMAIN kvs /\ ~Present(k2)
        /\ k3 \notin DOMAIN kvs
        /\ del_attribute_value(kvs, now, k3[1], k3[2]) = <<>>

(***************************************************************************)
(* C23.  search_attributes, search_keys and del_attributes called with a   *)
(* malformed glob pattern fail the call with an error value returned to    *)
(* the caller, without a panic of the calling task, and leave every entry  *)
(* of the store unchanged.  The code breaks it: the three functions unwrap *)
(* the result of Glob::new, so a malformed pattern panics; they have no    *)
(* error value to return.                                                  *)
(***************************************************************************)
C23_MalformedPatternIsAnError ==
    \A ns \in AllPatternArgs, name \in AllPatternArgs :
        (ns \in MalformedPatternArgs \/ name \in MalformedPatternArgs) =>
            \A r \in {search_attributes_call(kvs, now, ns, name),
                      search_keys_call(kvs, now, ns, name),
                      del_attributes_call(kvs, now, ns, name)} :
                ~r.panic /\ r.kvs = kvs

(***************************************************************************)
(* The lifecycle controller (webserver.rs).  WS_DATA holds the status, the *)
(* shutdown token and the shutdown-status latch; WS_JOB holds the handle   *)
(* of the server job, PID the process ID and SHUTDOWN_SIGNAL_NO the signal *)
(* to send.  set_status and set_shutdown_token do not write themselves:    *)
(* they spawn a task on the runtime and return; the runtime runs the       *)
(* spawned tasks later, in any order.  shutdown is the one of the build    *)
(* without cfg(test).  The server answers a shutdown request in four       *)
(* steps, one per access to the shared cells, so that several requests     *)
(* are served at the same time.  A server job serves requests from the     *)
(* moment init_webserver has spawned it, before its handle is stored.      *)
(***************************************************************************)
\* Spawned tasks of set_status and set_shutdown_token calls that wait to
\* run while a caller makes a further call.
MaxTasks == 2
\* Shutdown requests the server receives.
MaxRequests == 2

Statuses == {"Running", "Stopped", "Shutdown"}

TokenArgs == {"12345", "wrong"}

Modes == {"graceful", "signal"}

\* std::process::id()
ProcessId == 4242

SIGINT == 2

\* Signal::try_from (nix): the numbers of the signals of the platform, SIGHUP
\* (1) to SIGSYS (31); every other number is an error.
IsSignal(signal) == signal \in 1..31

\* Signal numbers passed to set_shutdown_signal: 0, -1 and 32 are not signals.
SignalArgs == {-1, 0, 2, 15, 32}

Ws ==
    [status |-> status, shutdown_token |-> shutdown_token,
     shutdown_status |-> shutdown_status, ws_job |-> ws_job, pid |-> pid,
     shutdown_signal_no |-> shutdown_signal_no, tasks |-> tasks,
     signals |-> signals, jobs |-> jobs]

InstallWs(w) ==
    /\ status' = w.status
    /\ shutdown_token' = w.shutdown_token
    /\ shutdown_status' = w.shutdown_status
    /\ ws_job' = w.ws_job
    /\ pid' = w.pid
    /\ shutdown_signal_no' = w.shutdown_signal_no
    /\ tasks' = w.tasks
    /\ signals' = w.signals
    /\ jobs' = w.jobs
    /\ UNCHANGED <<kvs, now, kvs_th, pipeline_vars>>

\* The result of a call: the controller it leaves and what it returns.
WsRet(w, r) == [ws |-> w, ret |-> r]

\* The number of server jobs spawned so far.
spawned == Len(jobs)

SetStatusTask(s) == [kind |-> "set_status", arg |-> s]

SetTokenTask(token) == [kind |-> "set_shutdown_token", arg |-> token]

Tasks == {SetStatusTask(s) : s \in Statuses} \cup {SetTokenTask(token) : token \in TokenArgs}

\* WsData::set_status: fails when WS_JOB is empty; a finished job is only
\* logged; the write is spawned.
set_status(w, s) ==
    IF w.ws_job = <<>> THEN WsRet(w, Err("Web server job not started"))
    ELSE WsRet([w EXCEPT !.tasks = Append(@, SetStatusTask(s))], Ok(None))

\* WsData::set_shutdown_token: the get_or_init is spawned.
set_shutdown_token(w, token) ==
    WsRet([w EXCEPT !.tasks = Append(@, SetTokenTask(token))], None)

\* The runtime runs the i-th waiting task: the body of the async block of
\* set_status (the status is written) or of set_shutdown_token (get_or_init
\* fills an empty cell; a different value in the cell is logged).
run_task(w, i) ==
    LET task == w.tasks[i]
        rest == [w EXCEPT !.tasks = SubSeq(@, 1, i - 1) \o SubSeq(@, i + 1, Len(@))]
    IN IF task.kind = "set_status" THEN [rest EXCEPT !.status = task.arg]
       ELSE IF rest.shutdown_token = <<>>
            THEN [rest EXCEPT !.shutdown_token = <<task.arg>>]
            ELSE rest

get_status(w) == w.status

get_shutdown_token(w) == w.shutdown_token

\* shutdown_status.get().cloned().unwrap_or(false)
is_shutdown_set(w) == IF w.shutdown_status = <<>> THEN FALSE ELSE w.shutdown_status[1]

\* shutdown of the cfg(test) build: it does nothing and succeeds.
shutdown_noop(w) == WsRet(w, Ok(None))

\* shutdown: OnceLock::set(true) fails on a cell that is set.
shutdown(w) ==
    IF w.shutdown_status /= <<>> THEN WsRet(w, Err("Shutdown status already set"))
    ELSE WsRet([w EXCEPT !.shutdown_status = <<TRUE>>], Ok(None))

\* get_shutdown_signal: get_or_init stores SIGINT in an empty cell.
get_shutdown_signal(w) ==
    IF w.shutdown_signal_no = <<>>
    THEN WsRet([w EXCEPT !.shutdown_signal_no = <<SIGINT>>], SIGINT)
    ELSE WsRet(w, w.shutdown_signal_no[1])

set_shutdown_signal(w, signal) ==
    IF ~IsSignal(signal) THEN WsRet(w, Err("Invalid signal number"))
    ELSE IF w.shutdown_signal_no /= <<>> THEN WsRet(w, Err("Signal already set"))
    ELSE WsRet([w EXCEPT !.shutdown_signal_no = <<signal>>], Ok(None))

\* init_webserver, one step per access to PID and WS_JOB.  `l` holds the
\* place the call has reached and the job it has spawned; a step gives the
\* controller and the locals it leaves.
InitIdle == [pc |-> "idle", job |-> 0]

\* lines 260-265: the PID is recorded.
init_webserver_pid(w, l) ==
    [ws |-> [w EXCEPT !.pid = ProcessId], l |-> [l EXCEPT !.pc = "check"]]

\* lines 267-269: a stored job ends the call.
init_webserver_check(w, l) ==
    IF w.ws_job /= <<>> THEN [ws |-> w, l |-> [l EXCEPT !.pc = "done"]]
    ELSE [ws |-> w, l |-> [l EXCEPT !.pc = "spawn"]]

\* lines 270-289: rt.spawn of the server job.
init_webserver_spawn(w, l) ==
    [ws |-> [w EXCEPT !.jobs = Append(@, "running")],
     l |-> [l EXCEPT !.pc = "store", !.job = Len(w.jobs) + 1]]

\* lines 290-291: WS_JOB.get_or_init keeps a job that is stored, and the
\* handle of the job just spawned is dropped; Ok is returned.
init_webserver_store(w, l) ==
    [ws |-> IF w.ws_job = <<>> THEN [w EXCEPT !.ws_job = <<l.job>>] ELSE w,
     l |-> [l EXCEPT !.pc = "done"]]

init_webserver_step(w, l) ==
    CASE l.pc = "pid"   -> init_webserver_pid(w, l)
      [] l.pc = "check" -> init_webserver_check(w, l)
      [] l.pc = "spawn" -> init_webserver_spawn(w, l)
      [] l.pc = "store" -> init_webserver_store(w, l)

RECURSIVE init_webserver_run(_, _)
init_webserver_run(w, l) ==
    IF l.pc = "done" THEN w
    ELSE LET n == init_webserver_step(w, l) IN init_webserver_run(n.ws, n.l)

\* init_webserver as a caller running alone sees it: the PID is recorded,
\* the server job is spawned and stored in WS_JOB unless WS_JOB holds a job.
init_webserver(w) ==
    WsRet(init_webserver_run(w, [InitIdle EXCEPT !.pc = "pid"]), Ok(None))

\* The states of a server job: "running"; "aborting" once abort was called
\* on its handle, the task still running; "aborted" once the runtime has
\* cancelled the task, the worker threads of the HTTP server going on; and
\* "finished" when the task has ended by itself, the server with it.
Serving == {"running", "aborting", "aborted"}

\* stop_webserver: expect panics on an empty WS_JOB; JoinHandle::abort asks
\* the runtime to cancel the job whose handle is stored and returns, the job
\* still running; on a job that has ended or is being cancelled it does
\* nothing.
stop_webserver(w) ==
    IF w.ws_job = <<>> THEN WsRet(w, "panic")
    ELSE IF w.jobs[w.ws_job[1]] /= "running" THEN WsRet(w, None)
    ELSE WsRet([w EXCEPT !.jobs[w.ws_job[1]] = "aborting"], None)

\* The runtime cancels job j, whose abort was requested.
cancel_job(w, j) == [w EXCEPT !.jobs[j] = "aborted"]

\* A shutdown request as the server holds it: the place its handler has
\* reached, the path parameters, and the response once it is sent.
Request(token, mode) ==
    [pc |-> "get_token", token |-> token, mode |-> mode, code |-> 0, body |-> ""]

Respond(req, code, body) == [req EXCEPT !.pc = "done", !.code = code, !.body = body]

\* shutdown_handler up to the token test.
handler_get_token(w, req) ==
    IF get_shutdown_token(w) = <<>> THEN Respond(req, 500, "No shutdown token set. Pipeline shutdown is not supported.")
    ELSE IF get_shutdown_token(w)[1] /= req.token
         THEN Respond(req, 401, "Invalid shutdown token provided (ignoring the command).")
         ELSE [req EXCEPT !.pc = "shutdown"]

\* shutdown_handler: let res = shutdown()
handler_shutdown(w, req) ==
    LET r == shutdown(w)
    IN IF ~r.ret.ok
       THEN [ws |-> r.ws, req |-> Respond(req, 500, "Failed to set shutdown status multiple times (already set).")]
       ELSE [ws |-> r.ws, req |-> [req EXCEPT !.pc = "set_status"]]

\* set_status(Shutdown) of shutdown_handler with the test of the mode left
\* out: the signal is sent for every accepted request.
handler_set_status_any_mode(w, req) ==
    LET r == set_status(w, "Shutdown")
    IN IF ~r.ret.ok
       THEN [ws |-> r.ws, req |-> Respond(req, 500, "Failed to set pipeline status.")]
       ELSE [ws |-> r.ws, req |-> [req EXCEPT !.pc = "kill"]]

\* shutdown_handler, lines 225-229: set_status(Shutdown) spawns the write;
\* a request of mode signal goes on to the PID lock, every other one is
\* answered.
handler_set_status(w, req) ==
    LET r == set_status(w, "Shutdown")
    IN IF ~r.ret.ok
       THEN [ws |-> r.ws, req |-> Respond(req, 500, "Failed to set pipeline status.")]
       ELSE IF req.mode = "signal"
            THEN [ws |-> r.ws, req |-> [req EXCEPT !.pc = "kill"]]
            ELSE [ws |-> r.ws, req |-> Respond(req, 200, "ok")]

\* shutdown_handler, lines 230-234: the PID is read under its lock, the
\* signal number is read (get_shutdown_signal fills an empty cell with
\* SIGINT), the signal is sent and the request is answered.
handler_kill(w, req) ==
    LET g == get_shutdown_signal(w)
    IN [ws |-> [g.ws EXCEPT !.signals = Append(@, <<g.ws.pid, g.ret>>)],
        req |-> Respond(req, 200, "ok")]

\* One step of the handler of a request.
shutdown_handler_step(w, req) ==
    IF req.pc = "get_token" THEN [ws |-> w, req |-> handler_get_token(w, req)]
    ELSE IF req.pc = "shutdown" THEN handler_shutdown(w, req)
    ELSE IF req.pc = "set_status" THEN handler_set_status(w, req)
    ELSE handler_kill(w, req)

SetStatus ==
    /\ Len(tasks) < MaxTasks
    /\ \E s \in Statuses : InstallWs(set_status(Ws, s).ws)
    /\ UNCHANGED <<requests, init_th>>

SetShutdownToken ==
    /\ Len(tasks) < MaxTasks
    /\ \E token \in TokenArgs : InstallWs(set_shutdown_token(Ws, token).ws)
    /\ UNCHANGED <<requests, init_th>>

RunTask(task) ==
    /\ \E i \in 1..Len(tasks) : tasks[i] = task /\ InstallWs(run_task(Ws, i))
    /\ UNCHANGED <<requests, init_th>>

RunTasks == \E task \in Tasks : RunTask(task)

SetShutdownSignal ==
    /\ \E signal \in SignalArgs : InstallWs(set_shutdown_signal(Ws, signal).ws)
    /\ UNCHANGED <<requests, init_th>>

\* A thread enters init_webserver and records the PID.
InitCall(t) ==
    /\ init_th[t].pc = "idle"
    /\ LET n == init_webserver_step(Ws, [InitIdle EXCEPT !.pc = "pid"])
       IN /\ InstallWs(n.ws)
          /\ init_th' = [init_th EXCEPT ![t] = n.l]
    /\ UNCHANGED requests

\* The call of a thread takes its next step; the locals are dropped when
\* the call returns.
InitStep(t) ==
    /\ init_th[t].pc \in {"check", "spawn", "store"}
    /\ LET n == init_webserver_step(Ws, init_th[t])
       IN /\ InstallWs(n.ws)
          /\ init_th' = [init_th EXCEPT ![t] = IF n.l.pc = "done" THEN InitIdle ELSE n.l]
    /\ UNCHANGED requests

\* One thread starts the server: its init_webserver call takes a step.  The
\* calls of several threads interleave in InitSpec.
InitWebserver == InitCall(1) \/ InitStep(1)

StopWebserver ==
    /\ InstallWs(stop_webserver(Ws).ws)
    /\ UNCHANGED <<requests, init_th>>

\* The runtime cancels a job at its next turn after abort was called.
JobCancelled ==
    /\ \E j \in 1..Len(jobs) :
           /\ jobs[j] = "aborting"
           /\ InstallWs(cancel_job(Ws, j))
    /\ UNCHANGED <<requests, init_th>>

\* A server job ends by itself (bind failed, HttpServer::run returned or
\* failed) before the runtime has cancelled it.
ServerStops ==
    /\ \E j \in 1..Len(jobs) :
           /\ jobs[j] \in {"running", "aborting"}
           /\ InstallWs([Ws EXCEPT !.jobs[j] = "finished"])
    /\ UNCHANGED <<requests, init_th>>

\* The HTTP server of a job receives POST /shutdown/{token}/{mode}; it goes
\* on serving after stop_webserver.
ReceiveShutdown ==
    /\ \E j \in 1..Len(jobs) : jobs[j] \in Serving
    /\ Len(requests) < MaxRequests
    /\ \E token \in TokenArgs, mode \in Modes :
           requests' = Append(requests, Request(token, mode))
    /\ UNCHANGED <<kvs, now, kvs_th, pipeline_vars, status, shutdown_token, shutdown_status,
                   ws_job, pid, shutdown_signal_no, tasks, signals, jobs, init_th>>

ShutdownHandler ==
    \E r \in 1..Len(requests) :
        /\ requests[r].pc /= "done"
        /\ LET n == shutdown_handler_step(Ws, requests[r])
           IN /\ InstallWs(n.ws)
              /\ requests' = [requests EXCEPT ![r] = n.req]
              /\ UNCHANGED init_th

LifeNext ==
    \/ SetStatus
    \/ SetShutdownToken
    \/ RunTasks
    \/ SetShutdownSignal
    \/ InitWebserver
    \/ StopWebserver
    \/ JobCancelled
    \/ ServerStops
    \/ ReceiveShutdown
    \/ ShutdownHandler

LifeSpec == Init /\ [][LifeNext]_vars

\* The shutdown protocol alone: the callers set the token and the status,
\* the server is started and serves shutdown requests; the runtime runs
\* every spawned task in the end.
ShutdownNext ==
    \/ SetStatus
    \/ SetShutdownToken
    \/ RunTasks
    \/ InitWebserver
    \/ ReceiveShutdown
    \/ ShutdownHandler

ShutdownFairSpec ==
    Init /\ [][ShutdownNext]_vars /\ \A task \in Tasks : WF_vars(RunTask(task))

(***************************************************************************)
(* C24.  POST /shutdown/{token}/{mode} is answered 500 when no shutdown    *)
(* token is set, 401 when a token is set and the supplied one differs, and *)
(* 200 when the token matches and the shutdown-status latch was not set    *)
(* before; an accepted request sets the latch and the status becomes       *)
(* Shutdown (the write is spawned and the runtime runs it); a request      *)
(* rejected with 401 or 500 changes neither the latch nor the status and   *)
(* spawns no write.                                                        *)
(* The code breaks it: a server job serves requests from the moment        *)
(* init_webserver has spawned it, and until init_webserver has stored the  *)
(* handle in WS_JOB set_status fails (C28); a request with the matching    *)
(* token served in between sets the latch and is answered 500 "Failed to   *)
(* set pipeline status.", and no write of Shutdown is spawned.             *)
(***************************************************************************)
C24_Responses ==
    \A r \in 1..Len(requests) :
        LET q == requests[r]
        IN /\ q.code \in {0, 200, 401, 500}
           /\ q.code = 401 => (shutdown_token /= <<>> /\ shutdown_token[1] /= q.token)
           /\ q.code = 200 => (shutdown_token = <<q.token>> /\ shutdown_status = <<TRUE>>)
           /\ q.code = 500 => q.body \in {"No shutdown token set. Pipeline shutdown is not supported.",
                                          "Failed to set shutdown status multiple times (already set)."}
           /\ q.pc \in {"shutdown", "set_status", "kill"} => shutdown_token = <<q.token>>

C24_Steps ==
    \A r \in 1..Len(requests) :
        (requests'[r] /= requests[r]) =>
            LET q == requests[r]
                n == requests'[r]
            IN CASE q.pc = "get_token" ->
                      /\ UNCHANGED <<shutdown_status, status, tasks, signals>>
                      /\ IF shutdown_token = <<>> THEN n.code = 500
                         ELSE IF shutdown_token[1] /= q.token THEN n.code = 401
                         ELSE n.code = 0 /\ n.pc = "shutdown"
                 [] q.pc = "shutdown" ->
                      /\ UNCHANGED <<status, tasks, signals>>
                      /\ IF shutdown_status = <<>>
                         THEN n.code = 0 /\ n.pc = "set_status" /\ shutdown_status' = <<TRUE>>
                         ELSE n.code = 500 /\ UNCHANGED shutdown_status
                 [] q.pc = "set_status" ->
                      /\ IF q.mode = "signal" THEN n.code = 0 /\ n.pc = "kill"
                         ELSE n.code = 200
                      /\ UNCHANGED shutdown_status
                      /\ tasks' = Append(tasks, SetStatusTask("Shutdown"))
                 [] q.pc = "kill" ->
                      /\ n.code = 200
                      /\ UNCHANGED <<shutdown_status, status, tasks>>
                 [] OTHER -> FALSE

\* The write that the accepting step has spawned waits to run.
ShutdownWritePending == \E i \in 1..Len(tasks) : tasks[i] = SetStatusTask("Shutdown")

C24_ShutdownRequest ==
    /\ []C24_Responses
    /\ [][C24_Steps]_vars
    /\ ShutdownWritePending ~> (status = "Shutdown")

(***************************************************************************)
(* C25.  Among the shutdown requests that carry the stored token, served   *)
(* one after the other or at the same time, at most one is answered 200    *)
(* and every other one 500, and exactly one is answered 200 once all of    *)
(* them are answered and one of them was served after the token was set;   *)
(* the latch is set exactly when one request has passed shutdown(); once   *)
(* set it stays set, so is_shutdown_set does not return false again.       *)
(* The code breaks the first part: the request that passes shutdown()      *)
(* while WS_JOB is still empty is answered 500 because set_status fails    *)
(* (C28), the latch is set, and every later request is answered 500 too,   *)
(* so that none is answered 200.                                           *)
(***************************************************************************)
\* The requests that shutdown() has let through.
PassedShutdown ==
    {r \in 1..Len(requests) :
        \/ requests[r].pc \in {"set_status", "kill"}
        \/ requests[r].code = 200
        \/ requests[r].body = "Failed to set pipeline status."}

\* The answered requests that were turned away by the latch.
TurnedAway ==
    {r \in 1..Len(requests) :
        requests[r].body = "Failed to set shutdown status multiple times (already set)."}

C25_Requests ==
    /\ Cardinality({r \in 1..Len(requests) : requests[r].code = 200}) <= 1
    /\ Cardinality(PassedShutdown) <= 1
    /\ is_shutdown_set(Ws) <=> PassedShutdown /= {}
    /\ \A r \in 1..Len(requests) :
          (requests[r].pc = "done" /\ shutdown_token = <<requests[r].token>>) =>
              requests[r].code \in {200, 500}
    /\ \A r \in TurnedAway : requests[r].code = 500 /\ is_shutdown_set(Ws)
    /\ ((\A r \in 1..Len(requests) : requests[r].pc = "done") /\ TurnedAway /= {}) =>
          Cardinality({r \in 1..Len(requests) : requests[r].code = 200}) = 1

C25_LatchStays == shutdown_status /= <<>> => shutdown_status' = shutdown_status

C25_ShutdownOnce == []C25_Requests /\ [][C25_LatchStays]_vars

(***************************************************************************)
(* C26.  The shutdown token keeps the value of the first                   *)
(* set_shutdown_token call: when the token cell is filled, it is filled    *)
(* with the argument of the earliest call, and a filled cell never         *)
(* changes.  While the cell is empty every call made so far has its task   *)
(* waiting in tasks, in the order of the calls.  The code breaks it: each  *)
(* call only spawns the get_or_init, and the runtime may run the task of   *)
(* a later call first.                                                     *)
(***************************************************************************)
TokenTaskIdx == {i \in 1..Len(tasks) : tasks[i].kind = "set_shutdown_token"}

\* The argument of the earliest set_shutdown_token call whose task waits.
FirstTokenCall == tasks[CHOOSE i \in TokenTaskIdx : \A j \in TokenTaskIdx : i <= j].arg

C26_Step ==
    /\ shutdown_token /= <<>> => shutdown_token' = shutdown_token
    /\ (shutdown_token = <<>> /\ shutdown_token' /= <<>>) =>
           shutdown_token' = <<FirstTokenCall>>

C26_FirstTokenKept == [][C26_Step]_vars

(***************************************************************************)
(* C27.  The status is Stopped until it is first written, it changes only  *)
(* by a write that a set_status call has spawned, and once set_status(s)   *)
(* has returned Ok (called by a caller or by an accepted shutdown request) *)
(* the status read next is s.  The code breaks the last part: set_status   *)
(* returns Ok when it has spawned the write, before the write is made.     *)
(***************************************************************************)
C27_Step ==
    /\ status' /= status =>
           \E i \in 1..Len(tasks) : tasks[i] = SetStatusTask(status')
    /\ \A s \in Statuses :
           tasks' = Append(tasks, SetStatusTask(s)) => get_status(Ws)' = s

C27_StatusIsLastWritten == (status = "Stopped") /\ [][C27_Step]_vars

(***************************************************************************)
(* C28.  set_status writes unconditionally: whatever the current status    *)
(* is, and whether or not the web server has been initialised or is still  *)
(* running, the call returns Ok and the write of the new status is made    *)
(* (spawned).  The code breaks it: set_status returns an error and writes  *)
(* nothing while WS_JOB is empty, that is before init_webserver.           *)
(***************************************************************************)
C28_SetStatusUnconditional ==
    \A s \in Statuses :
        LET r == set_status(Ws, s)
        IN /\ r.ret.ok
           /\ r.ws.tasks = Append(tasks, SetStatusTask(s))

(***************************************************************************)
(* C29.  Movement and deletion are linearizable with respect to the        *)
(* payload-location map: when, with no operation in progress, two threads  *)
(* call move_as_is, move_and_pack_frames, move_and_unpack_batch or delete  *)
(* on the same located ID and their steps interleave in any way, then      *)
(* once both calls have returned the payload-location map and the stage    *)
(* contents are those that one of the two orders of running the calls one  *)
(* after the other gives.  The code breaks it: every method reads the      *)
(* location, changes the stage and rewrites the location in separate       *)
(* steps, under separate locks.                                            *)
(***************************************************************************)
\* The calls on the one ID `id`.
RaceCalls(id) ==
    {[NoArgs EXCEPT !.pc = "delete", !.id = id]}
    \cup {[NoArgs EXCEPT !.pc = "move_as_is", !.stage_name = n, !.ids = <<id>>] :
            n \in NameArgs}
    \cup {[NoArgs EXCEPT !.pc = "pack", !.stage_name = n, !.ids = <<id>>] :
            n \in NameArgs}
    \cup {[NoArgs EXCEPT !.pc = "unpack", !.stage_name = n, !.id = id] :
            n \in NameArgs}

\* The states in which no thread can take a step, reached from `s` by the
\* steps of the threads in any order.
RECURSIVE Finals(_)
Finals(s) ==
    IF \A t \in Threads : ~CanStep(s, t) THEN {s}
    ELSE UNION {UNION {Finals(Step(WithOrder(s, t, o), t)) : o \in Orders(s, t)} :
                   t \in {u \in Threads : CanStep(s, u)}}

BothReturned(s) == \A t \in Threads : s.th[t].pc = "idle"

\* Thread `t` runs call `c` to its end, then thread `u` runs call `d`.
OneAfterTheOther(s, t, c, u, d) == Run(Call(Run(Call(s, t, c), t), u, d), u)

LocationsAndStages(s) == <<s.frame_locations, s.stages>>

C29_Linearizable ==
    AllIdle =>
        \A id \in DOMAIN frame_locations :
            \A c \in RaceCalls(id), d \in RaceCalls(id) :
                \A f \in Finals(Call(Call(State, 1, c), 2, d)) :
                    BothReturned(f) =>
                        \E o \in {OneAfterTheOther(State, 1, c, 2, d),
                                  OneAfterTheOther(State, 2, d, 1, c)} :
                            /\ BothReturned(o)
                            /\ LocationsAndStages(f) = LocationsAndStages(o)

(***************************************************************************)
(* C30.  While a movement of a live payload is in progress and no other    *)
(* operation runs, a reader finds the payload at every instant:            *)
(* get_independent_frame, get_batch or get_batched_frame on its ID         *)
(* succeeds, because the stage that the payload-location map names holds   *)
(* it.  The code breaks it: the payload is taken out of the source stage   *)
(* several steps before it is put into the destination stage, and the      *)
(* location is rewritten in between.                                       *)
(***************************************************************************)
\* A thread is inside move_as_is or move_and_pack_frames with `id` in its
\* list, and the other threads are idle.
MovedAlone(id) ==
    \E t \in Threads :
        /\ th[t].pc /= "idle"
        /\ th[t].op \in {"move_as_is", "pack"}
        /\ id \in Range(th[t].ids)
        /\ \A u \in Threads \ {t} : th[u].pc = "idle"

\* Some reader returns the payload `id`.
Readable(s, id) ==
    \/ get_independent_frame(s, id).ok
    \/ get_batch(s, id).ok
    \/ \E b \in IdArgs : get_batched_frame(s, b, id).ok

C30_NeverAbsent ==
    \A id \in live : MovedAlone(id) => Readable(State, id)

(***************************************************************************)
(* C31.  In move_as_is, move_and_pack_frames and move_and_unpack_batch the *)
(* payload-location entries of the moved IDs are rewritten to the          *)
(* destination index only after the insert into the destination stage:     *)
(* every step of a movement that gives an ID a new location leaves the     *)
(* stage of that location holding the ID, as a payload or as a member of   *)
(* one of its batches.  The code breaks it: update_frame_locations runs    *)
(* right after the removal from the source stage (move_as_is, unpack) or   *)
(* even before it (pack), and the insert comes last.                       *)
(***************************************************************************)
MoveOps == {"move_as_is", "pack", "unpack"}

\* The IDs whose location the step has set or changed.
Relocated == {id \in DOMAIN frame_locations' :
                 id \notin DOMAIN frame_locations
                 \/ frame_locations'[id] /= frame_locations[id]}

\* Stage `i` holds `id` after the step.
HeldAfter(i, id) ==
    \/ id \in DOMAIN stages'[i]
    \/ \E b \in DOMAIN stages'[i] :
          stages'[i][b].kind = "Batch" /\ id \in DOMAIN stages'[i][b].batch

C31_Step ==
    \A t \in Threads :
        (th[t].op \in MoveOps /\ th'[t].pc /= th[t].pc) =>
            \A id \in Relocated : HeldAfter(frame_locations'[id], id)

C31_LocationAfterInsert == [][C31_Step]_vars

(***************************************************************************)
(* Concurrent sampling specification: the sampling period is set, and      *)
(* every thread admits frames with add_frame into a Frame stage, one step  *)
(* of one thread at a time.                                                *)
(***************************************************************************)
FrameStageNames == {stage_name_of(i) : i \in {j \in StageIdx : stage_type_of(j) = "Frame"}}

\* The add_frame calls that have not reached the frame counter's fetch_add.
BeforeCount ==
    Cardinality({t \in Threads : th[t].pc \in {"add_frame", "add_frame_load", "add_frame_ctx", "awt_check"}})

ThreadAddFrame(t) ==
    /\ Idle(t) /\ frame_counter + BeforeCount < MaxFrames
    /\ \E stage_name \in FrameStageNames :
          Install(Forget(Step(Call(State, t, [NoArgs EXCEPT !.pc = "add_frame",
                                                            !.stage_name = stage_name,
                                                            !.frame = NextFrame]), t)))

ConcSamplingNext ==
    \/ SetSamplingPeriod
    \/ \E t \in Threads : ThreadAddFrame(t)
    \/ \E t \in Threads : ThreadStep(t)

ConcSamplingSpec == Init /\ [][ConcSamplingNext]_vars

(***************************************************************************)
(* C32.  With sampling period N > 0 and several threads in add_frame at    *)
(* the same time, the frame that received the post-increment frame-counter *)
(* value c gets a valid root span exactly when c is divisible by N, so     *)
(* that out of N consecutive admitted frames exactly one is traced.        *)
(* The code breaks it: add_frame decides on load() + 1 and the counter is  *)
(* incremented later, in add_frame_with_telemetry, by a separate           *)
(* fetch_add; two callers can load the same value.                         *)
(***************************************************************************)
\* Thread t is in add_frame, past the fetch_add of the frame counter.
Counted(t) == th[t].op = "add_frame" /\ th[t].count > 0

C32_ConcurrentSampling ==
    \A t \in Threads :
        (Counted(t) /\ get_sampling_period(State) > 0) =>
            (th[t].parent_valid <=> th[t].count % get_sampling_period(State) = 0)

(***************************************************************************)
(* C33.  Whenever no operation is in progress, the keys of the root-span   *)
(* map are the frame IDs that an ingress has returned and that no delete   *)
(* has removed; once every admitted frame has been deleted, the root-span  *)
(* map and the payload-location map are empty.                             *)
(* The code breaks it: an ingress naming a stage that does not exist       *)
(* inserts the root span of the new ID before it looks the stage up, and   *)
(* returns the error with the entry left in the map.                       *)
(***************************************************************************)
C33_RootSpanKeys ==
    AllIdle =>
        /\ DOMAIN root_spans = admitted \ deleted
        /\ admitted \subseteq deleted =>
              (root_spans = EmptyMap /\ frame_locations = EmptyMap)

(***************************************************************************)
(* C34.  Whenever no operation is in progress, every live frame            *)
(* (independent, or member of a batch) is held by exactly one payload and  *)
(* has exactly one current stage span, the context stored with it: for a   *)
(* traced frame (valid root span) it is the only stage span of the frame   *)
(* that is open, for an untraced frame it is the default context and no    *)
(* span of the frame is open.  A movement ends the previous stage span and *)
(* opens "stage/{dest}", which is what a reader of the destination stage   *)
(* gets; a delete ends the stage span; no stage span of a deleted frame    *)
(* is open.                                                                *)
(***************************************************************************)
\* The contexts the stages hold for frame `id`.
StageSpansOf(s, id) ==
    UNION {{s.stages[i][id].ctx : x \in {y \in {id} : /\ y \in DOMAIN s.stages[i]
                                                      /\ s.stages[i][y].kind = "Frame"}}
           \cup {s.stages[i][b].contexts[id] : b \in BatchesWith(s, i, id)} : i \in StageIdx}

\* The number of payloads that hold frame `id`.
Holders(s, id) ==
    Cardinality({i \in StageIdx : id \in DOMAIN s.stages[i] /\ s.stages[i][id].kind = "Frame"})
    + SumOver([i \in StageIdx |-> Cardinality(BatchesWith(s, i, id))], StageIdx)

OpenSpansOf(s, id) == {c \in s.open_spans : c.id = id}

\* Frame `id` has one holder, and its context is its one open stage span.
OneStageSpan(s, id) ==
    /\ Holders(s, id) = 1
    /\ \E c \in StageSpansOf(s, id) :
          /\ StageSpansOf(s, id) = {c}
          /\ c.valid <=> s.root_spans[id].valid
          /\ OpenSpansOf(s, id) = IF c.valid THEN {c} ELSE {}

\* The span a reader gets for frame `id` after a movement to `dest`.
RotatedSpan(s, id, dest) ==
    IF s.root_spans[id].valid THEN SpanCtx(id, <<"stage", dest>>) ELSE InvalidCtx

C34_OneOpenStageSpan ==
    AllIdle =>
        /\ \A id \in admitted \ deleted : OneStageSpan(State, id)
        /\ \A id \in deleted : OpenSpansOf(State, id) = {}
        /\ \A id \in IdArgs :
              IsIndependentFrame(State, id) =>
                  LET n == delete(State, 1, id)
                  IN Succeeded(n) => OpenSpansOf(n, id) = {}
        /\ \A dest \in NameArgs, ids \in IdLists :
              LET n == move_as_is(State, 1, dest, ids)
              IN Succeeded(n) =>
                    \A id \in Range(ids) :
                        /\ IsIndependentFrame(State, id) =>
                              /\ get_independent_frame(n, id).val[2] = RotatedSpan(State, id, dest)
                              /\ OneStageSpan(n, id)
                        /\ IsLocatedBatch(State, id) =>
                              \A m \in DOMAIN get_batch(State, id).val[1] :
                                  /\ get_batch(n, id).val[2][m] = RotatedSpan(State, m, dest)
                                  /\ OneStageSpan(n, m)
        /\ \A dest \in NameArgs, ids \in IdLists :
              LET n == move_and_pack_frames(State, 1, dest, ids)
              IN Succeeded(n) =>
                    \A id \in Range(ids) :
                        /\ get_batched_frame(n, n.th[1].ret.val, id).val[2]
                              = RotatedSpan(State, id, dest)
                        /\ OneStageSpan(n, id)
        /\ \A dest \in NameArgs, id \in IdArgs :
              LET n == move_and_unpack_batch(State, 1, dest, id)
              IN Succeeded(n) =>
                    \A m \in n.th[1].ret.val :
                        /\ get_independent_frame(n, m).val[2] = RotatedSpan(State, m, dest)
                        /\ OneStageSpan(n, m)

\* A traced frame has been admitted, moved into a batch and so holds the
\* open span "stage/{dest}" there, while another frame has been deleted.
C34_Witness ==
    /\ AllIdle
    /\ deleted /= {}
    /\ \E b \in DOMAIN frame_locations :
          /\ IsLocatedBatch(State, b)
          /\ \E m \in (admitted \ deleted) \cap DOMAIN get_batch(State, b).val[1] :
                /\ root_spans[m].valid
                /\ get_batch(State, b).val[2][m]
                      = SpanCtx(m, <<"stage", stage_name_of(frame_locations[b])>>)
                /\ get_batch(State, b).val[2][m] \in open_spans

(***************************************************************************)
(* C35.  A delete(id) that returns an error, for an unknown ID or for an   *)
(* ID the payload-location map knows but that is not a payload of the      *)
(* stage it names (the ID of a frame packed in a batch), leaves the        *)
(* payload-location map, the root-span map and all stages unchanged.       *)
(* The code breaks it: the location is removed before the stage is asked   *)
(* for the payload, and the error returns with the location gone.          *)
(***************************************************************************)
DeleteCore(s) == <<s.frame_locations, s.root_spans, s.stages>>

C35_FailedDeleteChangesNothing ==
    AllIdle =>
        \A id \in IdArgs :
            LET n == delete(State, 1, id)
            IN Failed(n) => DeleteCore(n) = DeleteCore(State)

(***************************************************************************)
(* C36.  Over the whole lifetime of a payload the stage index recorded for *)
(* it never decreases, and a movement whose destination name belongs only  *)
(* to stages placed before the payload's current stage fails with          *)
(* "Destination stage not found" and moves nothing.                        *)
(* The code breaks the first half: move_as_is accepts the ID of a frame    *)
(* packed in a batch and rewrites its location alone, and a later unpack   *)
(* of the batch, which has stayed behind, rewrites it to a smaller index.  *)
(***************************************************************************)
\* `dest` names a stage, and only stages before index `src`.
OnlyBefore(dest, src) ==
    /\ \E i \in StageIdx : stage_name_of(i) = dest
    /\ \A i \in StageIdx : stage_name_of(i) = dest => i < src

DestinationNotFound(n) ==
    /\ Failed(n)
    /\ n.th[1].ret.err = "Destination stage not found"
    /\ MoveCore(n) = MoveCore(State)

C36_BackwardRejected ==
    AllIdle =>
        \A id \in DOMAIN frame_locations, dest \in NameArgs :
            OnlyBefore(dest, frame_locations[id]) =>
                /\ DestinationNotFound(move_as_is(State, 1, dest, <<id>>))
                /\ DestinationNotFound(move_and_pack_frames(State, 1, dest, <<id>>))
                /\ DestinationNotFound(move_and_unpack_batch(State, 1, dest, id))

C36_Step ==
    \A id \in DOMAIN frame_locations \cap DOMAIN frame_locations' :
        frame_locations'[id] >= frame_locations[id]

C36_IndexNeverDecreases == []C36_BackwardRejected /\ [][C36_Step]_vars

(***************************************************************************)
(* C37.  Overwriting an existing KVS key resets its TTL: when              *)
(* set_attributes is called with ttl = Some(m) at time t on a key whose    *)
(* entry is present, the entry is returned at every time before t + m and  *)
(* at no time from t + m on; with ttl = None it is returned at every later *)
(* time.                                                                   *)
(* The code breaks it: set_attributes stores through get_with, which       *)
(* leaves a present entry as it is, with the expiration time it had.       *)
(***************************************************************************)
C37_OverwriteResetsTtl ==
    \A key \in DOMAIN kvs :
        ~expired(kvs[key], now) =>
            \A v \in KvsValues, ttl \in TtlArgs :
                LET c == set_attributes(kvs, now, <<Attribute(key[1], key[2], v)>>, ttl)
                IN \A dt \in 0..(MaxTtl + 1) :
                      (get_attribute(c, now + dt, key[1], key[2]) /= <<>>)
                          <=> (ttl = <<>> \/ dt < ttl[1])

(***************************************************************************)
(* C38.  The shutdown signal is sent exactly when a shutdown request is    *)
(* accepted (200) with mode signal: the step that answers such a request   *)
(* sends one signal, to the PID recorded by init_webserver, with the       *)
(* configured signal number, SIGINT when none was configured; no other     *)
(* step sends a signal, so an accepted request with mode graceful and the  *)
(* requests answered 401 or 500 send none; and at most one signal is ever  *)
(* sent.                                                                   *)
(***************************************************************************)
\* The requests with mode signal that the step answers with 200.
AcceptedWithSignal ==
    {r \in 1..Len(requests) :
        /\ requests[r].pc /= "done" /\ requests'[r].pc = "done"
        /\ requests'[r].code = 200 /\ requests[r].mode = "signal"}

\* The signal number in force: the configured one, or SIGINT.
ConfiguredSignal == IF shutdown_signal_no = <<>> THEN SIGINT ELSE shutdown_signal_no[1]

C38_Step ==
    IF AcceptedWithSignal /= {}
    THEN /\ Cardinality(AcceptedWithSignal) = 1
         /\ signals' = Append(signals, <<ProcessId, ConfiguredSignal>>)
    ELSE signals' = signals

C38_Sent ==
    /\ Len(signals) <= 1
    /\ Len(signals) =
          Cardinality({r \in 1..Len(requests) :
                          /\ requests[r].pc = "done" /\ requests[r].code = 200
                          /\ requests[r].mode = "signal"})

C38_SignalExactlyWhenAccepted == []C38_Sent /\ [][C38_Step]_vars

\* A signal number was configured, a request with the wrong token was
\* answered 401, and the request accepted with mode signal sent the
\* configured signal to the recorded PID.
C38_Witness ==
    /\ signals = <<<<ProcessId, 15>>>>
    /\ \E r \in 1..Len(requests) : requests[r].pc = "done" /\ requests[r].code = 401
    /\ \E r \in 1..Len(requests) :
          /\ requests[r].pc = "done" /\ requests[r].code = 200
          /\ requests[r].mode = "signal"

(***************************************************************************)
(* C39.  When set_status(a) is called and afterwards set_status(b), the    *)
(* write of the earlier call is never applied after the write of the       *)
(* later call, so that the status ends as b: whenever the runtime applies  *)
(* a status write, no write spawned by an earlier call is still waiting.   *)
(* The code breaks it: each call spawns its write as a task of its own,    *)
(* and the runtime does not order the tasks of different calls.            *)
(***************************************************************************)
\* The tasks without the i-th.
Without(q, i) == SubSeq(q, 1, i - 1) \o SubSeq(q, i + 1, Len(q))

\* The waiting status writes that the step may have applied.
AppliedStatusWrites ==
    {i \in 1..Len(tasks) :
        /\ tasks[i].kind = "set_status"
        /\ tasks' = Without(tasks, i)
        /\ status' = tasks[i].arg}

C39_Step ==
    AppliedStatusWrites /= {} =>
        \E i \in AppliedStatusWrites :
            \A j \in 1..(i - 1) : tasks[j].kind /= "set_status"

C39_WritesInCallOrder == [][C39_Step]_vars


(***************************************************************************)
(* The web server started by several threads: each thread calls            *)
(* init_webserver again and again, and the steps of the calls interleave   *)
(* at the accesses to PID and WS_JOB; the server is stopped or ends by     *)
(* itself, and the status is set meanwhile.                                *)
(***************************************************************************)
InitNext ==
    \/ \E t \in Threads : InitCall(t)
    \/ \E t \in Threads : InitStep(t)
    \/ StopWebserver
    \/ JobCancelled
    \/ ServerStops
    \/ SetStatus
    \/ RunTasks

InitSpec == Init /\ [][InitNext]_vars

(***************************************************************************)
(* C40.  At most one web-server job is ever spawned in a process: however  *)
(* the init_webserver calls interleave with one another and with           *)
(* stop_webserver, the number of jobs spawned never exceeds one, and a     *)
(* handle is stored exactly when one job was spawned.                      *)
(* The code breaks it: the test of WS_JOB, the spawn and the store are     *)
(* separate steps, and two calls that both pass the test before either     *)
(* stores both spawn a job; get_or_init keeps the first handle and the     *)
(* other job runs on with no handle.                                       *)
(***************************************************************************)
C40_AtMostOneJob ==
    /\ spawned <= 1
    /\ ws_job /= <<>> => spawned = 1
=============================================================================
